---------------------------- MODULE Spec2Model ----------------------------
(***************************************************************************)
(* A model of justtouch-py's peer-to-peer engine (src/p2p_manager.py):     *)
(* the session registry, the UDP discovery service and the direct TCP      *)
(* transport with its length-prefixed JSON metadata frame.                 *)
(*                                                                         *)
(* Data representation.  A TCP stream, a file and a bytes object are       *)
(* sequences of units.  A unit is a record [k, s, n, o, t, d]:             *)
(*   k = "data" : n symbolic file bytes, the bytes o .. o+n-1 of the       *)
(*                content version t (two bytes are equal iff they have the *)
(*                same version and offset);                                *)
(*   k = "byte" : one byte of value n (the bytes of the length prefix);    *)
(*   otherwise  : one lexical element of a JSON text ("{", "}", "[", "]",  *)
(*                "null", a string s, a number n; a string that is an MD5  *)
(*                hex digest carries the digested content in d).  The      *)
(*                separators ':' and ',' are folded into the elements, so  *)
(*                the length of a JSON text is its number of elements.     *)
(* A Python value (dict, list, str, int, None) is a record                 *)
(* [j, s, n, kv, d]; a dict keeps its insertion order in kv.               *)
(***************************************************************************)
EXTENDS Integers, Sequences, FiniteSets, TLC

(***************************************************************************)
(* Bounds of the model.                                                    *)
(***************************************************************************)
MaxFaults == 1
MaxOps == 3

(***************************************************************************)
(* Program constants.                                                      *)
(***************************************************************************)
CHUNK == 8192
PREFIX == 4
discovery_port == 45678
transfer_port == 45679

Min(a, b) == IF a < b THEN a ELSE b

RECURSIVE Concat(_)
Concat(ss) == IF ss = <<>> THEN <<>> ELSE Head(ss) \o Concat(Tail(ss))

(***************************************************************************)
(* Units.                                                                  *)
(***************************************************************************)
Unit(k, s, n, o, t, d) == [k |-> k, s |-> s, n |-> n, o |-> o, t |-> t, d |-> d]
Data(t, o, n) == Unit("data", "", n, o, t, <<>>)
Byte(v) == Unit("byte", "", v, 0, 0, <<>>)
Tok(k) == Unit(k, "", 0, 0, 0, <<>>)
StrTok(s, d) == Unit("str", s, 0, 0, 0, d)
NumTok(n) == Unit("num", "", n, 0, 0, <<>>)

UnitLen(u) == IF u.k = "data" THEN u.n ELSE 1

\* len(b) of a bytes object
RECURSIVE BytesLen(_)
BytesLen(b) == IF b = <<>> THEN 0 ELSE UnitLen(Head(b)) + BytesLen(Tail(b))

\* b1 + b2 on bytes objects; adjacent runs of the same content version are
\* one run, so that equal byte strings have equal representations
Join(b1, b2) ==
    IF b1 = <<>> THEN b2
    ELSE IF b2 = <<>> THEN b1
    ELSE LET l == b1[Len(b1)]
             h == Head(b2)
         IN IF l.k = "data" /\ h.k = "data" /\ l.t = h.t /\ l.o + l.n = h.o
            THEN SubSeq(b1, 1, Len(b1) - 1) \o <<Data(l.t, l.o, l.n + h.n)>> \o Tail(b2)
            ELSE b1 \o b2

\* the first n bytes of b (all of b when it is shorter)
RECURSIVE TakeBytes(_, _)
TakeBytes(b, n) ==
    IF n <= 0 \/ b = <<>> THEN <<>>
    ELSE LET h == Head(b)
         IN IF UnitLen(h) <= n
            THEN Join(<<h>>, TakeBytes(Tail(b), n - UnitLen(h)))
            ELSE <<Data(h.t, h.o, n)>>

\* b without its first n bytes
RECURSIVE DropBytes(_, _)
DropBytes(b, n) ==
    IF n <= 0 \/ b = <<>> THEN b
    ELSE LET h == Head(b)
         IN IF UnitLen(h) <= n
            THEN DropBytes(Tail(b), n - UnitLen(h))
            ELSE <<Data(h.t, h.o + n, h.n - n)>> \o Tail(b)

(***************************************************************************)
(* Python values.                                                          *)
(***************************************************************************)
Val(j, s, n, kv, d) == [j |-> j, s |-> s, n |-> n, kv |-> kv, d |-> d]
None == Val("null", "", 0, <<>>, <<>>)
Str(s) == Val("str", s, 0, <<>>, <<>>)
Num(n) == Val("num", "", n, <<>>, <<>>)
Dict(kv) == Val("obj", "", 0, kv, <<>>)
List(kv) == Val("arr", "", 0, kv, <<>>)
KV(k, v) == [key |-> k, val |-> v]

\* hashlib.md5(content).hexdigest(), collision-free
Md5(content) == Val("str", "md5", 0, <<>>, content)

\* key in d
HasKey(d, key) == \E i \in 1..Len(d.kv) : d.kv[i].key = key

\* d[key]
Get(d, key) == d.kv[CHOOSE i \in 1..Len(d.kv) : d.kv[i].key = key].val

\* d[key] = v on an insertion-ordered dict
DictSet(kv, key, v) ==
    IF \E i \in 1..Len(kv) : kv[i].key = key
    THEN [i \in 1..Len(kv) |-> IF kv[i].key = key THEN KV(key, v) ELSE kv[i]]
    ELSE Append(kv, KV(key, v))

\* Python truthiness: not v
Falsy(v) ==
    \/ v.j = "null"
    \/ v.j = "num" /\ v.n = 0
    \/ v.j = "str" /\ v.s = "" /\ v.d = <<>>
    \/ v.j \in {"obj", "arr"} /\ v.kv = <<>>

(***************************************************************************)
(* json.dumps and json.loads.                                              *)
(***************************************************************************)
RECURSIVE JsonDumps(_)
JsonDumps(v) ==
    CASE v.j = "obj" ->
           <<Tok("{")>>
           \o Concat([i \in 1..Len(v.kv) |->
                        <<StrTok(v.kv[i].key, <<>>)>> \o JsonDumps(v.kv[i].val)])
           \o <<Tok("}")>>
      [] v.j = "arr" ->
           <<Tok("[")>>
           \o Concat([i \in 1..Len(v.kv) |-> JsonDumps(v.kv[i].val)])
           \o <<Tok("]")>>
      [] v.j = "str" -> <<StrTok(v.s, v.d)>>
      [] v.j = "num" -> <<NumTok(v.n)>>
      [] OTHER -> <<Tok("null")>>

ParseFail == [ok |-> FALSE, v |-> None, next |-> 0]

RECURSIVE ParseValue(_, _), ParseMembers(_, _, _), ParseItems(_, _, _)
\* the JSON value that starts at element i of text b
ParseValue(b, i) ==
    IF i > Len(b) THEN ParseFail
    ELSE LET u == b[i]
         IN CASE u.k = "str" -> [ok |-> TRUE, v |-> Val("str", u.s, 0, <<>>, u.d), next |-> i + 1]
              [] u.k = "num" -> [ok |-> TRUE, v |-> Num(u.n), next |-> i + 1]
              [] u.k = "null" -> [ok |-> TRUE, v |-> None, next |-> i + 1]
              [] u.k = "{" -> ParseMembers(b, i + 1, <<>>)
              [] u.k = "[" -> ParseItems(b, i + 1, <<>>)
              [] OTHER -> ParseFail

ParseMembers(b, i, acc) ==
    IF i > Len(b) THEN ParseFail
    ELSE IF b[i].k = "}" THEN [ok |-> TRUE, v |-> Dict(acc), next |-> i + 1]
    ELSE IF b[i].k # "str" THEN ParseFail
    ELSE LET r == ParseValue(b, i + 1)
         IN IF r.ok THEN ParseMembers(b, r.next, DictSet(acc, b[i].s, r.v))
            ELSE ParseFail

ParseItems(b, i, acc) ==
    IF i > Len(b) THEN ParseFail
    ELSE IF b[i].k = "]" THEN [ok |-> TRUE, v |-> List(acc), next |-> i + 1]
    ELSE LET r == ParseValue(b, i)
         IN IF r.ok THEN ParseItems(b, r.next, Append(acc, KV("", r.v)))
            ELSE ParseFail

\* json.loads(b.decode('utf-8')): ok = FALSE when it raises
JsonLoads(b) ==
    LET r == ParseValue(b, 1)
    IN IF r.ok /\ r.next = Len(b) + 1 THEN [ok |-> TRUE, v |-> r.v]
       ELSE [ok |-> FALSE, v |-> None]

(***************************************************************************)
(* The length prefix.                                                      *)
(***************************************************************************)
\* length.to_bytes(4, byteorder='big')
ToBytes(length) ==
    << Byte((length \div 16777216) % 256), Byte((length \div 65536) % 256),
       Byte((length \div 256) % 256), Byte(length % 256) >>

\* int.from_bytes(length_bytes, byteorder='big')
RECURSIVE FromBytes(_)
FromBytes(bs) ==
    IF bs = <<>> THEN 0
    ELSE (IF bs[Len(bs)].k = "byte" THEN bs[Len(bs)].n ELSE 0)
         + 256 * FromBytes(SubSeq(bs, 1, Len(bs) - 1))

\* the bytes _send_json puts on the socket: sendall(prefix), sendall(json_data)
SendJson(data) ==
    LET json_data == JsonDumps(data)
    IN ToBytes(BytesLen(json_data)) \o json_data

(***************************************************************************)
(* The sender host's file system and the inputs of the operations.         *)
(***************************************************************************)
Paths == {"/a/x", "/b/x", "/a/y"}
SessionIds == {"s1", "s2"}
FileLists == {<<>>, <<"/a/y">>, <<"/a/x", "/b/x">>, <<"/a/x", "/a/x">>}
\* the (session_id, files) pairs create_session is called with
CreateInputs == ({"s1"} \X FileLists) \cup {<<"s2", <<"/b/x">> >>}
\* the files other programs change
ChangingPaths == {"/a/x"}
download_dir == "/dl"

\* a path as pathlib holds it: the root ("/" when absolute) and the parts
PurePath(root, parts) == [root |-> root, parts |-> parts]

\* Path(text) for the texts that occur as directories and file names
Path(text) ==
    CASE text = "/dl" -> PurePath("/", << "dl" >>)
      [] text = "/etc/x" -> PurePath("/", << "etc", "x" >>)
      [] text = "../x" -> PurePath("", << "..", "x" >>)
      [] OTHER -> PurePath("", << text >>)

\* p / q: an absolute q replaces p, a relative q is appended as it is
Truediv(p, q) == IF q.root # "" THEN q ELSE [p EXCEPT !.parts = @ \o q.parts]

\* the file the system opens for a path: '..' steps to the parent directory
RECURSIVE Lookup(_, _)
Lookup(parts, at) ==
    IF parts = <<>> THEN at
    ELSE IF Head(parts) = ".."
    THEN Lookup(Tail(parts), IF at = <<>> THEN at ELSE SubSeq(at, 1, Len(at) - 1))
    ELSE Lookup(Tail(parts), Append(at, Head(parts)))

\* file_path = download_path / file_name, as open(file_path, 'wb') finds it
FilePath(file_name) ==
    LET file_path == Truediv(Path(download_dir), Path(file_name))
    IN PurePath(file_path.root, Lookup(file_path.parts, <<>>))

\* os.path.basename(file_path)
Basename(p) == IF p = "/a/y" THEN "y" ELSE "x"

\* hashlib.md5(file_path.encode()).hexdigest(), collision-free
PathMd5(p) == CASE p = "/a/x" -> "md5(/a/x)" [] p = "/b/x" -> "md5(/b/x)" [] OTHER -> "md5(/a/y)"

File(e, r, c) == [exists |-> e, readable |-> r, content |-> c]

InitDisk ==
    [p \in Paths |->
       CASE p = "/a/x" -> File(TRUE, TRUE, <<Data(1, 0, 16385)>>)
         [] p = "/b/x" -> File(TRUE, TRUE, <<Data(2, 0, 10)>>)
         [] OTHER -> File(TRUE, TRUE, <<>>)]

VARIABLES
    disk,            \* sender host: path -> file
    changes,         \* number of changes other programs made to the disk
    sessions,        \* P2PManager.sessions of the sender host
    ops,             \* number of operations the callers have started and of
                     \* datagrams other programs have sent
    cb,              \* the callers pass a progress_callback (that returns)
    other,           \* a send_files call on a second thread of the sender host
    verify,          \* the last checksum verification: its arguments and result
    android,         \* android_utils: ANDROID_AVAILABLE, the selector, its calls
    nfc,             \* the last NFC payload built and what was extracted from it
    screen,          \* ui.NFCScreen: its widgets, its listener and its timers
    snd,             \* the locals of the running send_files
    server_socket,   \* "none", "listening", "closed", "gc" (dropped unclosed)
    accepted,        \* the sender's end of the accepted connection, likewise
    backlog,         \* a connection waits in the listen queue
    wire,            \* bytes sent and not yet received
    rcv,             \* the locals of the running receive_files
    client_socket,   \* the receiver's socket: "none", "open", "closed", "gc"
    dest,            \* receiver host: the files written, path -> bytes
    made,            \* the directories receive_files has created
    slog,            \* what the sender has put on the connection, in order
    rlog,            \* what the receiver has taken from the connection, in order
    peer,            \* a peer that is not this program (SpecPeer)
    running,         \* P2PManager._running of the sender host
    listener,        \* its discovery thread: "starting", "created" (it has its
                     \* socket), "running" (bound, in the loop), "stopped", "dead"
    discovery_socket, \* P2PManager._discovery_socket: "none", "open", "closed"
    net,             \* the datagrams in flight
    call,            \* the locals of discover_session on the receiver host
    hist             \* the last datagram the discovery thread has handled

vars == << disk, changes, sessions, ops, cb, other, verify, android, nfc, screen, snd, server_socket, accepted, backlog,
           wire, rcv, client_socket, dest, made, slog, rlog, peer,
           running, listener, discovery_socket, net, call, hist >>
dvars == << running, listener, discovery_socket, net, call, hist >>

\* an entry of slog or rlog: the metadata message (e = "meta"), or the bytes b,
\* n of them, moved for the f-th file of the mapping at offset o (e = "data")
Ev(e, f, o, b) == [e |-> e, f |-> f, o |-> o, n |-> BytesLen(b), b |-> b]

(***************************************************************************)
(* TransferSession.                                                        *)
(***************************************************************************)
\* TransferSession._calculate_file_checksum
CalculateFileChecksum(f) == IF f.readable THEN Md5(f.content) ELSE Str("")

\* the record _calculate_metadata stores for an existing file
MetadataEntry(p, f) ==
    Dict(<< KV("path", Str(p)),
            KV("name", Str(Basename(p))),
            KV("size", Num(BytesLen(f.content))),
            KV("chunks", Num((BytesLen(f.content) \div CHUNK) + 1)),
            KV("checksum", CalculateFileChecksum(f)) >>)

\* TransferSession._calculate_metadata, from file i of the list on
RECURSIVE CalculateMetadata(_, _, _, _, _)
CalculateMetadata(d, files, i, file_metadata, total_size) ==
    IF i > Len(files) THEN [file_metadata |-> file_metadata, total_size |-> total_size]
    ELSE IF d[files[i]].exists
    THEN CalculateMetadata(d, files, i + 1,
                           DictSet(file_metadata, PathMd5(files[i]),
                                   MetadataEntry(files[i], d[files[i]])),
                           total_size + BytesLen(d[files[i]].content))
    ELSE CalculateMetadata(d, files, i + 1, file_metadata, total_size)

\* TransferSession.__init__
TransferSession(d, session_id, files) ==
    LET m == CalculateMetadata(d, files, 1, <<>>, 0)
    IN [ session_id |-> session_id,
         files |-> files,
         file_metadata |-> m.file_metadata,
         total_size |-> m.total_size,
         transferred_size |-> 0,
         is_active |-> FALSE ]

\* a text holding a hex digest: the algorithm, the bytes digested and the case
\* of its letters; hexdigest() is lower-case
Hexdigest(alg, content) == [alg |-> alg, of |-> content, case |-> "lower"]
\* the empty string, and None where a string is expected
EmptyText == [alg |-> "", of |-> <<>>, case |-> "lower"]
NoneText == [alg |-> "none", of |-> <<>>, case |-> "lower"]
\* no verification has run
VerifyIdle == [routine |-> "none", file |-> File(FALSE, FALSE, <<>>),
               expected |-> EmptyText, algorithm |-> "", result |-> FALSE]

\* no payload built yet
NfcIdle == [called |-> FALSE, text |-> <<>>, language |-> <<>>, payload |-> <<>>,
            extracted |-> [none |-> TRUE, text |-> <<>>]]

\* the text of a label: a format and the number it shows
Label(text, n) == [text |-> text, n |-> n]

\* ui.NFCScreen after __init__ and build_ui, the main screen showing; timers:
\* the update_progress intervals scheduled on the Clock; cancelled: the user
\* has cancelled a transfer in progress and there has been no NFC tap since
NFCScreen ==
    [current |-> "main", is_sending |-> FALSE, is_listening |-> FALSE,
     value |-> 0, progress_label |-> Label("", 0), instructions |-> "",
     action_btn |-> "Cancel", timers |-> 0, cancelled |-> FALSE]

\* the module android_utils after import: ANDROID_AVAILABLE, self.callback of
\* the global selector, the permission callbacks handed to the platform, the
\* calls made so far with the arguments each passed to its callback before it
\* returned, and the callbacks invoked after the call that took them returned
AndroidFileSelector(available) ==
    [available |-> available, callback |-> "none", pending |-> {}, log |-> <<>>,
     late |-> {}]

\* the second send_files call: its position, its result, its listening socket,
\* its accepted connection, whether a client waits in its socket's queue, and
\* whether it reached bind or listen while the first call's socket listened
OtherIdle == [pc |-> "idle", result |-> "none", server_socket |-> "none",
              accepted |-> "none", backlog |-> FALSE, contended |-> FALSE]

\* bind and listen on the transfer port raise EADDRINUSE while a socket of the
\* host listens on it; a socket dropped without close may still be listening
InUseNever(ss) == {FALSE}
InUse(ss) == CASE ss = "listening" -> {TRUE}
               [] ss = "gc" -> {TRUE, FALSE}
               [] OTHER -> {FALSE}

\* progress: the last (bytes moved, total_size) pair whose quotient the
\* operation has passed to progress_callback, << >> before the first call
SndIdle == [pc |-> "idle", session_id |-> "", metadata |-> None,
            idx |-> 0, bytes_sent |-> 0, result |-> "none", progress |-> <<>>]
\* linked: the receiver's connection is the one the current (or last)
\* send_files serves; json: how _receive_json ended ("value": it returned the
\* decoded message, "None": it returned None, "raised": json.loads raised)
RcvIdle == [pc |-> "idle", linked |-> FALSE, session_id |-> "", partials |-> 0, json |-> "none",
            length |-> 0, json_data |-> <<>>, metadata |-> None, idx |-> 0,
            bytes_received |-> 0, received_size |-> 0, result |-> "none",
            progress |-> <<>>]
PeerIdle == [pc |-> "none", sent |-> None, framed |-> FALSE, stream |-> <<>>]
\* an address of the datagram network
Addr(host, port) == [host |-> host, port |-> port]
\* handled: what the discovery thread found when it handled the query of this
\* call ("no": not handled); late: a datagram of this call was still in flight
\* when the call timed out; stray: a datagram of another program was sent to
\* the socket of this call
CallIdle == [pc |-> "idle", session_id |-> "", port |-> 0, result |-> None,
             sends |-> 0, recvs |-> 0, reply |-> <<>>, handled |-> "no",
             late |-> FALSE, stray |-> FALSE]
HistNone == [b |-> <<>>, from |-> Addr("", 0), registered |-> {}, out |-> <<>>]

Init ==
    /\ disk = InitDisk
    /\ changes = 0
    /\ sessions = << >>
    /\ ops = 0
    /\ cb \in BOOLEAN
    /\ other = OtherIdle
    /\ verify = VerifyIdle
    /\ android = AndroidFileSelector(FALSE)
    /\ nfc = NfcIdle
    /\ screen = NFCScreen
    /\ snd = SndIdle
    /\ server_socket = "none"
    /\ accepted = "none"
    /\ backlog = FALSE
    /\ wire = <<>>
    /\ rcv = RcvIdle
    /\ client_socket = "none"
    /\ dest = << >>
    /\ made = {}
    /\ slog = <<>>
    /\ rlog = <<>>
    /\ peer = PeerIdle
    /\ running = TRUE
    /\ listener = "running"
    /\ discovery_socket = "open"
    /\ net = {}
    /\ call = CallIdle
    /\ hist = HistNone

tvars == << server_socket, accepted, backlog, wire, slog >>
rvars == << rcv, client_socket, dest, made, rlog >>

(***************************************************************************)
(* Other programs change the sender's files: delete, make unreadable,      *)
(* truncate, append.  A file send_files holds open is not unlinked; changes *)
(* no later operation of the model can read are left out.                  *)
(***************************************************************************)
CallerFree == snd.pc \in {"idle", "done"}

SenderHasOpen(p) ==
    /\ snd.pc = "chunk"
    /\ Get(sessions[snd.session_id].file_metadata[snd.idx].val, "path").s = p

FileChanges(p) ==
    LET f == disk[p]
        n == BytesLen(f.content)
    IN {File(TRUE, TRUE, TakeBytes(f.content, n \div 2)),
        File(TRUE, TRUE, Join(f.content, <<Data(10 + changes, 0, 20)>>))}
       \cup (IF SenderHasOpen(p) THEN {}
             ELSE {File(FALSE, FALSE, <<>>), File(TRUE, FALSE, f.content)})

EnvChange ==
    /\ changes + rcv.partials < MaxFaults
    /\ ops < MaxOps \/ ~CallerFree
    /\ \E p \in ChangingPaths :
         /\ disk[p].exists /\ disk[p].readable
         /\ \E f \in FileChanges(p) : disk' = [disk EXCEPT ![p] = f]
    /\ changes' = changes + 1
    /\ UNCHANGED << sessions, ops, cb, nfc, screen, android, other, verify, snd, tvars, rvars, peer, dvars >>

(***************************************************************************)
(* P2PManager.create_session and cleanup_session, called while no          *)
(* send_files is running on the calling thread.                            *)
(***************************************************************************)
CreateSession ==
    /\ CallerFree /\ ops < MaxOps
    /\ \E in \in CreateInputs :
         LET session_id == in[1]
             files == in[2]
         IN sessions' = [s \in DOMAIN sessions \cup {session_id} |->
                           IF s = session_id THEN TransferSession(disk, session_id, files)
                           ELSE sessions[s]]
    /\ ops' = ops + 1
    /\ UNCHANGED << disk, changes, cb, nfc, screen, android, other, verify, snd, tvars, rvars, peer, dvars >>

\* del self.sessions[session_id] with no membership test: KeyError when absent
CleanupUnchecked(reg, session_id) ==
    [ sessions |-> [s \in DOMAIN reg \ {session_id} |-> reg[s]],
      raised |-> session_id \notin DOMAIN reg ]

\* the body of cleanup_session: the registry it leaves, and whether it raises
Cleanup(reg, session_id) ==
    [ sessions |-> IF session_id \in DOMAIN reg
                   THEN [s \in DOMAIN reg \ {session_id} |-> reg[s]]
                   ELSE reg,
      raised |-> FALSE ]

CleanupSession ==
    /\ CallerFree /\ ops < MaxOps
    /\ \E session_id \in SessionIds :
         /\ ~Cleanup(sessions, session_id).raised
         /\ sessions' = Cleanup(sessions, session_id).sessions
    /\ ops' = ops + 1
    /\ UNCHANGED << disk, changes, cb, nfc, screen, android, other, verify, snd, tvars, rvars, peer, dvars >>

(***************************************************************************)
(* P2PManager.send_files -> _send_files_direct.                            *)
(***************************************************************************)
\* the receiver's end of the connection is gone: sendall may raise
PeerGone == client_socket \in {"closed", "gc"}
SendallOutcomes == IF PeerGone THEN {"sent", "raised"} ELSE {"sent"}

\* a faulty counter, for comparison: one counter shared by every session
TransferredShared(reg, session_id, n) ==
    [s \in DOMAIN reg |-> [reg[s] EXCEPT !.transferred_size = @ + n]]

\* session.transferred_size += len(chunk)
Transferred(reg, session_id, n) ==
    [reg EXCEPT ![session_id].transferred_size = @ + n]

\* progress_callback((moved / total) * 100, ...) when a callback was passed
Progress(last, moved, total) == IF cb THEN << moved, total >> ELSE last

\* return from _send_files_direct
SendReturn(result, ss, acc) ==
    /\ snd' = [snd EXCEPT !.pc = "done", !.result = result]
    /\ server_socket' = ss
    /\ accepted' = acc

\* the outer except: the sockets are dropped, not closed
SendRaise == SendReturn("False", "gc", IF accepted = "open" THEN "gc" ELSE accepted)

\* the metadata message of a session
Metadata(session) ==
    Dict(<< KV("session_id", Str(session.session_id)),
            KV("files", Dict(session.file_metadata)),
            KV("total_size", Num(session.total_size)) >>)

\* a faulty read, for comparison: every read starts at the beginning of the file
ReadChunkRewound(content, pos) == TakeBytes(content, CHUNK)

\* a faulty read, for comparison: reads of half the size
ReadChunkHalf(content, pos) == TakeBytes(DropBytes(content, pos), CHUNK \div 2)

\* f.read(8192) at file position pos
ReadChunk(content, pos) == TakeBytes(DropBytes(content, pos), CHUNK)

\* send_files up to listen()
SendFiles ==
    /\ CallerFree /\ ops < MaxOps
    /\ rcv.pc \in {"idle", "connect", "done"}
    /\ ops' = ops + 1
    /\ rcv' = [rcv EXCEPT !.linked = FALSE]
    /\ \E session_id \in SessionIds :
         IF session_id \notin DOMAIN sessions
         THEN /\ snd' = [SndIdle EXCEPT !.pc = "done", !.session_id = session_id,
                                        !.result = "False"]
              /\ slog' = <<>>
              /\ UNCHANGED << server_socket, accepted, backlog, wire >>
         ELSE \E busy \in InUse(other.server_socket) :
                IF busy
                THEN /\ snd' = [SndIdle EXCEPT !.pc = "done", !.session_id = session_id,
                                               !.result = "False"]
                     /\ server_socket' = "gc"
                     /\ accepted' = "none"
                     /\ backlog' = FALSE
                     /\ wire' = <<>>
                     /\ slog' = <<>>
                ELSE /\ snd' = [SndIdle EXCEPT !.pc = "accept", !.session_id = session_id]
                     /\ server_socket' = "listening"
                     /\ accepted' = "none"
                     /\ backlog' = FALSE
                     /\ wire' = <<>>
                     /\ slog' = <<>>
    /\ UNCHANGED << disk, changes, sessions, cb, nfc, screen, android, other, verify, client_socket, dest, made, rlog, peer, dvars >>

\* accept() times out
SendAcceptTimeout ==
    /\ snd.pc = "accept" /\ ~backlog
    /\ SendReturn("False", "closed", accepted)
    /\ UNCHANGED << disk, changes, sessions, ops, cb, nfc, screen, android, other, verify, backlog, wire, slog, rvars, peer, dvars >>

\* accept() returns the connection; _send_json(client_socket, metadata)
SendMetadata ==
    /\ snd.pc = "accept" /\ backlog
    /\ backlog' = FALSE
    /\ \E o \in SendallOutcomes :
         IF o = "sent"
         THEN /\ snd' = [snd EXCEPT !.pc = "file", !.idx = 1,
                                     !.metadata = Metadata(sessions[snd.session_id])]
              /\ accepted' = "open"
              /\ wire' = IF PeerGone THEN wire
                         ELSE wire \o SendJson(Metadata(sessions[snd.session_id]))
              /\ slog' = Append(slog, Ev("meta", 0, 0, SendJson(Metadata(sessions[snd.session_id]))))
              /\ UNCHANGED server_socket
         ELSE /\ SendReturn("False", "gc", "gc")
              /\ UNCHANGED << wire, slog >>
    /\ UNCHANGED << disk, changes, sessions, ops, cb, nfc, screen, android, other, verify, rvars, peer, dvars >>

\* the head of the for loop: progress callback, open(file_path, 'rb'); after
\* the last file: close both sockets, return True
SendFile ==
    /\ snd.pc = "file"
    /\ LET session == sessions[snd.session_id]
           items == session.file_metadata
       IN IF snd.idx > Len(items)
          THEN SendReturn("True", "closed", "closed")
          ELSE LET file_info == items[snd.idx].val
                   file_path == Get(file_info, "path").s
                   file_size == Get(file_info, "size").n
               IN IF cb /\ session.total_size = 0
                  THEN SendRaise                      \* ZeroDivisionError
                  ELSE IF ~disk[file_path].exists \/ ~disk[file_path].readable
                  THEN SendRaise                      \* open() raises
                  ELSE /\ snd' = IF 0 < file_size
                                 THEN [snd EXCEPT !.pc = "chunk", !.bytes_sent = 0,
                                                  !.progress = Progress(@, session.transferred_size,
                                                                        session.total_size)]
                                 ELSE [snd EXCEPT !.idx = snd.idx + 1,
                                                  !.progress = Progress(@, session.transferred_size,
                                                                        session.total_size)]
                       /\ UNCHANGED << server_socket, accepted >>
    /\ UNCHANGED << disk, changes, sessions, ops, cb, nfc, screen, android, other, verify, backlog, wire, slog, rvars, peer, dvars >>

\* one iteration of the while loop: read, sendall, count, progress callback
SendChunk ==
    /\ snd.pc = "chunk"
    /\ LET session == sessions[snd.session_id]
           file_info == session.file_metadata[snd.idx].val
           file_size == Get(file_info, "size").n
           chunk == ReadChunk(disk[Get(file_info, "path").s].content, snd.bytes_sent)
           n == BytesLen(chunk)
       IN IF chunk = <<>>
          THEN /\ snd' = [snd EXCEPT !.pc = "file", !.idx = snd.idx + 1]
               /\ UNCHANGED << sessions, tvars >>
          ELSE \E o \in SendallOutcomes :
                 IF o = "sent"
                 THEN /\ wire' = IF PeerGone THEN wire ELSE Join(wire, chunk)
                      /\ slog' = Append(slog, Ev("data", snd.idx, snd.bytes_sent, chunk))
                      /\ sessions' = Transferred(sessions, snd.session_id, n)
                      /\ snd' = IF snd.bytes_sent + n < file_size
                                THEN [snd EXCEPT !.bytes_sent = @ + n,
                                                 !.progress = Progress(@, session.transferred_size + n,
                                                                       session.total_size)]
                                ELSE [snd EXCEPT !.pc = "file", !.idx = snd.idx + 1,
                                                 !.bytes_sent = @ + n,
                                                 !.progress = Progress(@, session.transferred_size + n,
                                                                       session.total_size)]
                      /\ UNCHANGED << server_socket, accepted, backlog >>
                 ELSE /\ SendRaise
                      /\ UNCHANGED << sessions, backlog, wire, slog >>
    /\ UNCHANGED << disk, changes, ops, cb, nfc, screen, android, other, verify, rvars, peer, dvars >>

(***************************************************************************)
(* P2PManager.receive_files -> _receive_files_direct.                      *)
(***************************************************************************)
\* the peer's end is closed: recv on the drained stream returns b''
PeerClosed == accepted \in {"closed", "gc"}

\* the sizes of a short read tried for a request of want bytes
Partial(want) == IF want <= PREFIX THEN 1..(want - 1) ELSE {want \div 2}

\* what socket.recv(want) may return the length of, bytes being available
RecvSizes(want) ==
    LET m == Min(want, BytesLen(wire))
    IN {m} \cup (IF changes + rcv.partials < MaxFaults THEN {k \in Partial(want) : k < m} ELSE {})

\* a faulty request, for comparison: always a whole chunk
WantChunk(file_size, bytes_received) == CHUNK

\* the argument of recv in the file loop: min(8192, file_size - bytes_received)
Want(file_size, bytes_received) == Min(CHUNK, file_size - bytes_received)

\* return from _receive_files_direct
ReceiveReturn(r, result, sock) ==
    /\ rcv' = [r EXCEPT !.pc = "done", !.result = result]
    /\ client_socket' = sock

\* lines 336-342 on the value _receive_json returned
CheckMetadata(metadata, session_id) ==
    IF Falsy(metadata) THEN "invalid"
    ELSE IF metadata.j # "obj" THEN "raise"                 \* no .get
    ELSE IF (IF HasKey(metadata, "session_id") THEN Get(metadata, "session_id") ELSE None)
            # Str(session_id) THEN "invalid"
    ELSE IF ~HasKey(metadata, "files") \/ ~HasKey(metadata, "total_size") THEN "raise"
    ELSE "ok"

\* lines 335-347 once _receive_json has returned metadata (None: no message)
ReceiveChecked(r, metadata) ==
    LET c == CheckMetadata(metadata, r.session_id)
        m == [r EXCEPT !.metadata = metadata,
                       !.json = IF r.pc = "payload" /\ BytesLen(r.json_data) = r.length
                                THEN "value" ELSE "None"]
    IN /\ CASE c = "invalid" -> ReceiveReturn(m, "False", "closed")
            [] c = "raise" -> ReceiveReturn(m, "False", "gc")
            [] OTHER -> /\ rcv' = [m EXCEPT !.pc = "file", !.idx = 1]
                        /\ UNCHANGED client_socket
       /\ made' = IF c = "ok" THEN made \cup {download_dir} ELSE made
       /\ rlog' = IF c = "ok" THEN Append(rlog, Ev("meta", 0, 0, ToBytes(r.length) \o r.json_data))
                  ELSE rlog


\* receive_files: discover_session, then the endpoint or failure
ReceiveFiles ==
    /\ rcv.pc \in {"idle", "done"} /\ ops < MaxOps
    /\ ops' = ops + 1
    /\ \E session_id \in SessionIds, answered \in BOOLEAN :
         /\ rcv' = IF answered /\ session_id \in DOMAIN sessions
                   THEN [RcvIdle EXCEPT !.pc = "connect", !.session_id = session_id]
                   ELSE [RcvIdle EXCEPT !.pc = "done", !.session_id = session_id,
                                        !.result = "False"]
         /\ client_socket' = "none"
         /\ rlog' = <<>>
    /\ UNCHANGED << disk, changes, sessions, cb, nfc, screen, android, other, verify, snd, tvars, dest, made, peer, dvars >>

\* client_socket.connect((host, port))
ReceiveConnect ==
    /\ rcv.pc = "connect"
    /\ IF server_socket = "listening" /\ accepted = "none" /\ ~backlog
       THEN /\ backlog' = TRUE
            /\ client_socket' = "open"
            /\ rcv' = [rcv EXCEPT !.pc = "prefix", !.linked = TRUE]
       ELSE /\ ReceiveReturn(rcv, "False", "gc")      \* refused, or never accepted
            /\ UNCHANGED backlog
    /\ UNCHANGED << disk, changes, sessions, ops, cb, nfc, screen, android, other, verify, snd, server_socket, accepted,
                    wire, slog, dest, made, rlog, peer, dvars >>

\* _receive_json: length_bytes = socket.recv(4)
ReceivePrefix ==
    /\ rcv.pc = "prefix"
    /\ IF wire = <<>>
       THEN /\ PeerClosed
            /\ ReceiveChecked(rcv, None)
            /\ UNCHANGED wire
       ELSE \E n \in RecvSizes(PREFIX) :
              LET length_bytes == TakeBytes(wire, n)
                  r == [rcv EXCEPT !.partials = IF n < Min(PREFIX, BytesLen(wire))
                                                THEN @ + 1 ELSE @]
              IN /\ wire' = DropBytes(wire, n)
                 /\ IF BytesLen(length_bytes) < PREFIX
                    THEN ReceiveChecked(r, None)
                    ELSE /\ rcv' = [r EXCEPT !.pc = "payload",
                                             !.length = FromBytes(length_bytes),
                                             !.json_data = <<>>]
                         /\ UNCHANGED << client_socket, made, rlog >>
    /\ UNCHANGED << disk, changes, sessions, ops, cb, nfc, screen, android, other, verify, snd, server_socket, accepted,
                    backlog, slog, dest, peer, dvars >>

\* json.loads(json_data.decode('utf-8')) and what follows it
ReceiveDecoded(r) ==
    IF JsonLoads(r.json_data).ok
    THEN ReceiveChecked(r, JsonLoads(r.json_data).v)
    ELSE /\ ReceiveReturn([r EXCEPT !.json = "raised"], "False", "gc")
         /\ UNCHANGED << made, rlog >>

\* _receive_json: one turn of the while loop, and the decoding after the last
ReceivePayload ==
    /\ rcv.pc = "payload"
    /\ LET need == rcv.length - BytesLen(rcv.json_data)
       IN IF need <= 0
          THEN /\ ReceiveDecoded(rcv)
               /\ UNCHANGED wire
          ELSE IF wire = <<>>
          THEN /\ PeerClosed
               /\ ReceiveChecked(rcv, None)
               /\ UNCHANGED wire
          ELSE \E n \in RecvSizes(need) :
                 LET r == [rcv EXCEPT !.json_data = @ \o TakeBytes(wire, n),
                                      !.partials = IF n < Min(need, BytesLen(wire))
                                                   THEN @ + 1 ELSE @]
                 IN /\ wire' = DropBytes(wire, n)
                    /\ IF n < need
                       THEN /\ rcv' = r
                            /\ UNCHANGED << client_socket, made, rlog >>
                       ELSE ReceiveDecoded(r)
    /\ UNCHANGED << disk, changes, sessions, ops, cb, nfc, screen, android, other, verify, snd, server_socket, accepted,
                    backlog, slog, dest, peer, dvars >>

\* the head of the for loop: name, size, path, progress callback,
\* open(file_path, 'wb'); after the last file: close, return True
ReceiveFile ==
    /\ rcv.pc = "file"
    /\ LET files_info == Get(rcv.metadata, "files")
           total_size == Get(rcv.metadata, "total_size")
       IN IF files_info.j # "obj"
          THEN ReceiveReturn(rcv, "False", "gc") /\ UNCHANGED dest      \* no .items
          ELSE IF rcv.idx > Len(files_info.kv)
          THEN ReceiveReturn(rcv, "True", "closed") /\ UNCHANGED dest
          ELSE LET file_info == files_info.kv[rcv.idx].val
               IN IF \/ file_info.j # "obj"
                     \/ ~HasKey(file_info, "name") \/ ~HasKey(file_info, "size")
                     \/ Get(file_info, "name").j # "str"
                     \/ cb /\ (total_size.j # "num" \/ total_size.n = 0)
                  THEN ReceiveReturn(rcv, "False", "gc") /\ UNCHANGED dest
                  ELSE LET file_name == Get(file_info, "name").s
                           file_size == Get(file_info, "size")
                       IN /\ dest' = [f \in DOMAIN dest \cup {FilePath(file_name)} |->
                                        IF f = FilePath(file_name) THEN <<>> ELSE dest[f]]
                          /\ IF file_size.j # "num"
                             THEN ReceiveReturn(rcv, "False", "gc")     \* 0 < file_size
                             ELSE /\ rcv' = IF 0 < file_size.n
                                            THEN [rcv EXCEPT !.pc = "chunk", !.bytes_received = 0,
                                                             !.progress = Progress(@, rcv.received_size,
                                                                                   total_size.n)]
                                            ELSE [rcv EXCEPT !.idx = @ + 1,
                                                             !.progress = Progress(@, rcv.received_size,
                                                                                   total_size.n)]
                                  /\ UNCHANGED client_socket
    /\ UNCHANGED << disk, changes, sessions, ops, cb, nfc, screen, android, other, verify, snd, tvars, made, rlog, peer, dvars >>

\* one turn of the while loop: recv, write, count, progress callback
ReceiveChunk ==
    /\ rcv.pc = "chunk"
    /\ LET file_info == Get(rcv.metadata, "files").kv[rcv.idx].val
           file_name == Get(file_info, "name").s
           file_size == Get(file_info, "size").n
           want == Want(file_size, rcv.bytes_received)
       IN IF wire = <<>>
          THEN /\ PeerClosed                                  \* if not chunk: break
               /\ rcv' = [rcv EXCEPT !.pc = "file", !.idx = @ + 1]
               /\ UNCHANGED << wire, dest, rlog >>
          ELSE \E n \in RecvSizes(want) :
                 /\ wire' = DropBytes(wire, n)
                 /\ dest' = [dest EXCEPT ![FilePath(file_name)] = Join(@, TakeBytes(wire, n))]
                 /\ rlog' = Append(rlog, Ev("data", rcv.idx, rcv.bytes_received, TakeBytes(wire, n)))
                 /\ rcv' = [rcv EXCEPT !.bytes_received = @ + n,
                                       !.received_size = @ + n,
                                       !.progress = Progress(@, rcv.received_size + n,
                                                             Get(rcv.metadata, "total_size").n),
                                       !.partials = IF n < Min(want, BytesLen(wire))
                                                    THEN @ + 1 ELSE @,
                                       !.pc = IF rcv.bytes_received + n < file_size
                                              THEN "chunk" ELSE "file",
                                       !.idx = IF rcv.bytes_received + n < file_size
                                               THEN @ ELSE @ + 1]
    /\ UNCHANGED << disk, changes, sessions, ops, cb, nfc, screen, android, other, verify, snd, server_socket, accepted,
                    backlog, slog, client_socket, made, peer, dvars >>

Next ==
    \/ EnvChange
    \/ CreateSession
    \/ CleanupSession
    \/ SendFiles
    \/ SendAcceptTimeout
    \/ SendMetadata
    \/ SendFile
    \/ SendChunk
    \/ ReceiveFiles
    \/ ReceiveConnect
    \/ ReceivePrefix
    \/ ReceivePayload
    \/ ReceiveFile
    \/ ReceiveChunk

Spec == Init /\ [][Next]_vars

(***************************************************************************)
(* Properties of one transfer between send_files and receive_files.        *)
(***************************************************************************)
\* the number of bytes a log records for the k-th file of the mapping
RECURSIVE LoggedBytes(_, _)
LoggedBytes(log, k) ==
    IF log = <<>> THEN 0
    ELSE (IF Head(log).e = "data" /\ Head(log).f = k THEN Head(log).n ELSE 0)
         + LoggedBytes(Tail(log), k)

\* the files mapping of a metadata message, as its sequence of items
FilesOf(metadata) == Get(metadata, "files").kv

\* both operations have returned True for the same metadata message
BothSucceeded ==
    /\ snd.pc = "done" /\ snd.result = "True"
    /\ rcv.pc = "done" /\ rcv.result = "True"
    /\ rcv.linked

\* C1: round trip.  When send_files and receive_files have both returned True
\* (the source files unchanged since the session was created), the destination
\* holds, for every entry of file_metadata, a file with the bytes of the source
\* file whose MD5 equals the entry's checksum.
C1_RoundTrip ==
    (BothSucceeded /\ changes = 0) =>
        \A i \in 1..Len(FilesOf(snd.metadata)) :
            LET e == FilesOf(snd.metadata)[i].val
                name == FilePath(Get(e, "name").s)
            IN /\ name \in DOMAIN dest
               /\ dest[name] = disk[Get(e, "path").s].content
               /\ Md5(dest[name]) = Get(e, "checksum")

\* C2: receive_files never returns True when, for some file, it has taken fewer
\* bytes from the connection than the size the metadata declares (the peer
\* closed the stream, and a zero-length read came before the declared size).
C2_ShortReadFails ==
    (rcv.pc = "done" /\ rcv.result = "True") =>
        \A k \in 1..Len(FilesOf(rcv.metadata)) :
            LoggedBytes(rlog, k) >= Get(FilesOf(rcv.metadata)[k].val, "size").n

\* C6: a send_files that returned True has written, for every file of the
\* metadata, exactly the declared number of bytes.
C6_SentEqualsDeclared ==
    (snd.pc = "done" /\ snd.result = "True") =>
        \A k \in 1..Len(FilesOf(snd.metadata)) :
            LoggedBytes(slog, k) = Get(FilesOf(snd.metadata)[k].val, "size").n

\* the bytes a log records, in order
RECURSIVE AllBytes(_)
AllBytes(log) ==
    IF log = <<>> THEN <<>>
    ELSE Join(AllBytes(SubSeq(log, 1, Len(log) - 1)), log[Len(log)].b)

\* a log starts with the one metadata message; the data that follow are in the
\* order of the mapping, each file from offset 0 on without a gap
OrderedLog(log) ==
    /\ \A i \in 1..Len(log) : (log[i].e = "meta") <=> (i = 1)
    /\ \A i \in 2..Len(log) :
         IF i = 2 THEN log[i].o = 0
         ELSE \/ log[i].f = log[i-1].f /\ log[i].o = log[i-1].o + log[i-1].n
              \/ log[i].f > log[i-1].f /\ log[i].o = 0

\* the bytes of the f-th file of the sender's mapping at offsets o .. o+n-1
SourceBytes(f, o, n) ==
    TakeBytes(DropBytes(disk[Get(FilesOf(snd.metadata)[f].val, "path").s].content, o), n)

\* C4: on both sides the metadata message comes first and whole, the files
\* follow in the order of the metadata's mapping, the same on both sides, and
\* the bytes of one file are moved from offset 0 on in increasing order before
\* any byte of the next; the receiver takes the bytes in the order sent.
C4_Ordering ==
    /\ OrderedLog(slog)
    /\ OrderedLog(rlog)
    /\ slog # <<>> => slog[1].b = SendJson(snd.metadata)
    /\ changes = 0 =>
         \A i \in 2..Len(slog) : slog[i].b = SourceBytes(slog[i].f, slog[i].o, slog[i].n)
    /\ snd.pc \in {"file", "chunk"} =>
         FilesOf(snd.metadata) = sessions[snd.session_id].file_metadata
    /\ (rcv.linked /\ rlog # <<>>) =>
         /\ rcv.metadata = snd.metadata
         /\ TakeBytes(AllBytes(slog), BytesLen(AllBytes(rlog))) = AllBytes(rlog)

\* a transfer of two files, one of them of several chunks, has completed
C4_Witness ==
    /\ BothSucceeded
    /\ \E i, j \in 1..Len(slog) : slog[i].f = 2 /\ slog[j].o > 0
    /\ \E i, j \in 1..Len(rlog) : rlog[i].f = 2 /\ rlog[j].o > 0

(***************************************************************************)
(* receive_files against an arbitrary peer.  The peer listens on the       *)
(* endpoint discovery returned, accepts the connection and writes a byte   *)
(* stream of its choice: a message framed by _send_json followed by data   *)
(* bytes, a prefix of such a frame, or a frame whose payload is not JSON.  *)
(***************************************************************************)
PeerEntry(name, size) ==
    Dict(<< KV("path", Str("/p")), KV("name", Str(name)), KV("size", Num(size)),
            KV("chunks", Num(1)), KV("checksum", Str("")) >>)
NoName(size) == Dict(<< KV("path", Str("/p")), KV("size", Num(size)) >>)
NoSize(name) == Dict(<< KV("path", Str("/p")), KV("name", Str(name)) >>)
PeerMetadata(session_id, files) ==
    Dict(<< KV("session_id", Str(session_id)), KV("files", files),
            KV("total_size", Num(15)) >>)

GoodMessage ==
    PeerMetadata("s1", Dict(<< KV("f1", PeerEntry("x", 10)), KV("f2", PeerEntry("y", 5)) >>))

\* the values the peer passes to _send_json
PeerMessages ==
    { GoodMessage,
      PeerMetadata("s2", Dict(<< KV("f1", PeerEntry("x", 10)), KV("f2", PeerEntry("y", 5)) >>)),
      PeerMetadata("s1", Dict(<< KV("f1", PeerEntry("x", 10)), KV("f2", NoName(5)) >>)),
      PeerMetadata("s1", Dict(<< KV("f1", PeerEntry("x", 10)), KV("f2", NoSize("y")) >>)),
      PeerMetadata("s1", Dict(<< KV("f1", NoName(10)), KV("f2", PeerEntry("y", 5)) >>)),
      PeerMetadata("s1", Dict(<< KV("f1", PeerEntry("/etc/x", 10)), KV("f2", PeerEntry("y", 5)) >>)),
      PeerMetadata("s1", Dict(<< KV("f1", PeerEntry("../x", 10)), KV("f2", PeerEntry("y", 5)) >>)),
      PeerMetadata("s1", List(<<>>)),
      Dict(<< KV("session_id", Str("s1")) >>),
      Dict(<<>>),
      Num(5),
      List(<< KV("", Num(1)) >>),
      None }

\* the file bytes the peer writes after the frame
PeerData == { <<>>, << Data(7, 0, 10) >>, << Data(7, 0, 15) >> }

\* the streams the peer writes
PeerScripts ==
    { [sent |-> m, framed |-> TRUE, stream |-> SendJson(m) \o d] :
        m \in PeerMessages, d \in PeerData }
    \cup { [sent |-> GoodMessage, framed |-> TRUE,
            stream |-> TakeBytes(SendJson(GoodMessage), k)] :
             k \in {0, 2, PREFIX, BytesLen(SendJson(GoodMessage)) - 1} }
    \cup { [sent |-> None, framed |-> FALSE,
            stream |-> ToBytes(2) \o << Tok("{"), Tok("{") >>] }

InitPeer ==
    /\ disk = InitDisk
    /\ changes = 0
    /\ sessions = << >>
    /\ ops = 0
    /\ cb \in BOOLEAN
    /\ other = OtherIdle
    /\ verify = VerifyIdle
    /\ android = AndroidFileSelector(FALSE)
    /\ nfc = NfcIdle
    /\ screen = NFCScreen
    /\ snd = SndIdle
    /\ server_socket = "listening"
    /\ accepted = "none"
    /\ backlog = FALSE
    /\ wire = <<>>
    /\ rcv = RcvIdle
    /\ client_socket = "none"
    /\ dest = << >>
    /\ made = {}
    /\ slog = <<>>
    /\ rlog = <<>>
    /\ running = TRUE
    /\ listener = "running"
    /\ discovery_socket = "open"
    /\ net = {}
    /\ call = CallIdle
    /\ hist = HistNone
    /\ \E sc \in PeerScripts :
         peer = [pc |-> "listening", sent |-> sc.sent, framed |-> sc.framed,
                 stream |-> sc.stream]

\* receive_files: discover_session returns the endpoint of the peer
ReceiveFilesFromPeer ==
    /\ rcv.pc = "idle" /\ peer.pc = "listening" /\ ops < MaxOps
    /\ ops' = ops + 1
    /\ rcv' = [RcvIdle EXCEPT !.pc = "connect", !.session_id = "s1"]
    /\ UNCHANGED << disk, changes, sessions, cb, nfc, screen, android, other, verify, snd, tvars, client_socket, dest,
                    made, rlog, peer, dvars >>

\* the peer accepts the connection and writes its stream
PeerSend ==
    /\ peer.pc = "listening" /\ backlog
    /\ backlog' = FALSE
    /\ accepted' = "open"
    /\ wire' = peer.stream
    /\ peer' = [peer EXCEPT !.pc = "sent"]
    /\ UNCHANGED << disk, changes, sessions, ops, cb, nfc, screen, android, other, verify, snd, server_socket, slog, rvars, dvars >>

\* the peer closes the connection
PeerClose ==
    /\ peer.pc = "sent"
    /\ accepted' = "closed"
    /\ peer' = [peer EXCEPT !.pc = "closed"]
    /\ UNCHANGED << disk, changes, sessions, ops, cb, nfc, screen, android, other, verify, snd, server_socket, backlog,
                    wire, slog, rvars, dvars >>

\* socket.timeout out of a recv: the peer keeps the connection open and
\* writes nothing more for 30 seconds
ReceiveTimeout ==
    /\ rcv.pc \in {"prefix", "payload", "chunk"}
    /\ rcv.pc = "payload" => BytesLen(rcv.json_data) < rcv.length
    /\ wire = <<>> /\ peer.pc = "sent"
    /\ ReceiveReturn(rcv, "False", "gc")
    /\ UNCHANGED << disk, changes, sessions, ops, cb, nfc, screen, android, other, verify, snd, tvars, dest, made, rlog, peer, dvars >>

NextPeer ==
    \/ ReceiveFilesFromPeer
    \/ PeerSend
    \/ PeerClose
    \/ ReceiveConnect
    \/ ReceivePrefix
    \/ ReceivePayload
    \/ ReceiveFile
    \/ ReceiveChunk
    \/ ReceiveTimeout

SpecPeer == InitPeer /\ [][NextPeer]_vars

\* the frame the peer chose was written whole
FrameComplete ==
    peer.framed /\ BytesLen(peer.stream) >= BytesLen(SendJson(peer.sent))

\* a message that is not session metadata: not a mapping, a key missing,
\* files not a mapping, or an entry lacking name or size
Malformed(m) ==
    \/ m.j # "obj"
    \/ ~HasKey(m, "session_id") \/ ~HasKey(m, "files") \/ ~HasKey(m, "total_size")
    \/ Get(m, "files").j # "obj"
    \/ \E i \in 1..Len(Get(m, "files").kv) :
         LET e == Get(m, "files").kv[i].val
         IN e.j # "obj" \/ ~HasKey(e, "name") \/ ~HasKey(e, "size")

\* the metadata frame is absent, malformed, or names another session
BadMetadata ==
    \/ ~FrameComplete
    \/ Malformed(peer.sent)
    \/ Get(peer.sent, "session_id") # Str(rcv.session_id)

\* C3: when the first frame of the connection is absent, malformed (a files
\* mapping with an entry lacking name or size included) or carries another
\* session id, receive_files returns False and, when it returns, no file byte
\* has been read from the connection or written to the destination.
C3_BadMetadataAborts ==
    (rcv.pc = "done" /\ peer.pc # "listening" /\ BadMetadata) =>
        /\ rcv.result = "False"
        /\ rcv.received_size = 0
        /\ \A f \in DOMAIN dest : dest[f] = <<>>

\* C5: framing.  Whenever _receive_json has ended on a stream on which the
\* peer wrote a whole _send_json frame, however recv split the stream, it
\* returned the message sent; it ends without a message only when the stream
\* was closed before the prefix and the payload had arrived.
C5_FramingRoundTrip ==
    /\ (rcv.json # "none" /\ FrameComplete) =>
           rcv.json = "value" /\ rcv.metadata = peer.sent
    /\ (rcv.json \in {"None", "raised"} /\ peer.framed) =>
           ~FrameComplete /\ PeerClosed

(***************************************************************************)
(* Session discovery.  The sender host runs the discovery thread started   *)
(* by P2PManager.__init__; discover_session runs on the receiver host,     *)
(* whose own registry is empty.  Datagrams are delivered in any order or   *)
(* never; hosts that do not run this program send datagrams of their own.  *)
(***************************************************************************)
local_ip == "sender"
ListenerAddr == Addr(local_ip, discovery_port)
OtherAddr == Addr("other", discovery_port)
Datagram(to, from, b) == [to |-> to, from |-> from, b |-> b]

\* f"{ip}:{port}"
FormatEndpoint(ip, port) == Val("str", "", 0, <<>>, << StrTok(ip, <<>>), NumTok(port) >>)

\* d.get(key)
DictGet(d, key) == IF HasKey(d, key) THEN Get(d, key) ELSE None

\* bytes.decode() succeeds: the datagram is UTF-8 text
Decodable(b) == \A i \in 1..Len(b) : b[i].k # "byte"

\* the discovery_msg of discover_session
DiscoveryMsg(session_id) ==
    Dict(<< KV("type", Str("session_discovery")), KV("session_id", Str(session_id)) >>)

\* the response of _handle_discovery_message
Response(session_id, endpoint) ==
    Dict(<< KV("type", Str("session_response")), KV("session_id", session_id),
            KV("endpoint", endpoint) >>)

\* the datagrams other programs send to the discovery port
StrayQueries ==
    { << Tok("garbage") >>,
      << Byte(255) >>,
      JsonDumps(Num(5)),
      JsonDumps(List(<< KV("", Num(1)) >>)),
      JsonDumps(Dict(<< KV("type", Str("hello")), KV("session_id", Str("s1")) >>)),
      JsonDumps(Dict(<< KV("type", Str("session_discovery")),
                        KV("session_id", List(<<>>)) >>)),
      JsonDumps(DiscoveryMsg("s1")) }

\* the datagrams other programs send to the socket of a discover_session call
StrayReplies ==
    { << Tok("garbage") >>,
      << Byte(255) >>,
      JsonDumps(Num(5)),
      JsonDumps(Dict(<< KV("type", Str("hello")), KV("session_id", Str("s1")),
                        KV("endpoint", FormatEndpoint("other", transfer_port)) >>)) }
    \cup { JsonDumps(Response(Str(x), FormatEndpoint("other", transfer_port))) :
             x \in SessionIds }
    \cup { JsonDumps(Response(Str("s1"), Str(""))) }

\* a faulty test, for comparison: every session id counts as registered
RegisteredAlways(session_id) == TRUE
\* session_id in self.sessions, session_id hashable
Registered(session_id) ==
    session_id.j = "str" /\ session_id.d = <<>> /\ session_id.s \in DOMAIN sessions

\* a faulty address, for comparison: the reply is broadcast
ReplyAddrBroadcast(addr) == Addr("<broadcast>", discovery_port)
\* the address sendto is given in _handle_discovery_message
ReplyAddr(addr) == addr

\* one turn of the loop of discovery_worker on a datagram: data.decode(),
\* _handle_discovery_message; raised: an exception reached the loop's
\* except Exception, out: the datagrams sent
HandleDiscoveryMessage(b, addr) ==
    IF ~Decodable(b) THEN [raised |-> TRUE, out |-> <<>>]            \* UnicodeDecodeError
    ELSE IF ~JsonLoads(b).ok THEN [raised |-> FALSE, out |-> <<>>]   \* JSONDecodeError
    ELSE LET data == JsonLoads(b).v
         IN IF data.j # "obj" THEN [raised |-> TRUE, out |-> <<>>]   \* no .get
            ELSE IF DictGet(data, "type") # Str("session_discovery")
            THEN [raised |-> FALSE, out |-> <<>>]
            ELSE LET session_id == DictGet(data, "session_id")
                 IN IF session_id.j \in {"obj", "arr"}
                    THEN [raised |-> TRUE, out |-> <<>>]             \* unhashable
                    ELSE IF Registered(session_id)
                    THEN [raised |-> FALSE,
                          out |-> << Datagram(ReplyAddr(addr), ListenerAddr,
                                              JsonDumps(Response(session_id,
                                                  FormatEndpoint(local_ip, transfer_port)))) >>]
                    ELSE [raised |-> FALSE, out |-> <<>>]

\* the socket of the running discover_session call
CallAddr == Addr("receiver", call.port)
CallOpen == call.pc = "sent"

\* the datagrams of a set that can still be received: those for the discovery
\* port while the discovery thread of state l reads it, those for socket a
Receivable(dgs, l, r, a) ==
    { dg \in dgs : (dg.to = ListenerAddr /\ l = "running" /\ r) \/ dg.to = a }
\* no socket: the call has returned
NoAddr == Addr("", 0)

\* discovery_worker: recvfrom returns a datagram, and it is handled
ListenerHandle ==
    /\ running /\ listener = "running"
    /\ \E dg \in net :
         /\ dg.to = ListenerAddr
         /\ LET h == HandleDiscoveryMessage(dg.b, dg.from)
                mine == CallOpen /\ dg.from = CallAddr
                \* a datagram for a socket that is closed reaches nobody
                arrive == { h.out[i] : i \in { j \in 1..Len(h.out) :
                                                 CallOpen /\ h.out[j].to = CallAddr } }
            IN /\ listener' = IF h.raised THEN "dead" ELSE listener
               /\ net' = Receivable((net \ {dg}) \cup arrive, listener', running,
                                    IF CallOpen THEN CallAddr ELSE NoAddr)
               /\ hist' = [b |-> dg.b, from |-> dg.from,
                    registered |-> DOMAIN sessions, out |-> h.out]
               /\ call' = IF mine
                          THEN [call EXCEPT !.handled =
                                  IF call.session_id \in DOMAIN sessions
                                  THEN "registered" ELSE "unregistered"]
                          ELSE call
    /\ UNCHANGED << disk, changes, sessions, ops, cb, nfc, screen, android, other, verify, snd, tvars, rvars, peer,
                    discovery_socket, running >>

\* discovery_worker: while self._running ends the loop after stop()
ListenerExit ==
    /\ ~running /\ listener = "running"
    /\ listener' = "stopped"
    /\ UNCHANGED << disk, changes, sessions, ops, cb, nfc, screen, android, other, verify, snd, tvars, rvars, peer,
                    discovery_socket, running, net, call, hist >>

\* P2PManager.stop
Stop ==
    /\ CallerFree /\ ops < MaxOps
    /\ ops' = ops + 1
    /\ running' = FALSE
    /\ discovery_socket' = IF discovery_socket = "none" THEN "none" ELSE "closed"
    /\ net' = Receivable(net, listener, FALSE, IF CallOpen THEN CallAddr ELSE NoAddr)
    /\ UNCHANGED << disk, changes, sessions, cb, nfc, screen, android, other, verify, snd, tvars, rvars, peer,
                    listener, call, hist >>

\* another program sends a datagram to the discovery port
StrayQuery ==
    /\ ops < MaxOps
    /\ ops' = ops + 1
    /\ \E b \in StrayQueries :
         net' = Receivable(net \cup { Datagram(ListenerAddr, OtherAddr, b) },
                           listener, running, IF CallOpen THEN CallAddr ELSE NoAddr)
    /\ UNCHANGED << disk, changes, sessions, cb, nfc, screen, android, other, verify, snd, tvars, rvars, peer,
                    discovery_socket, running, listener, call, hist >>

\* another program sends a datagram to the socket of the running call
StrayReply ==
    /\ ops < MaxOps /\ CallOpen
    /\ ops' = ops + 1
    /\ \E b \in StrayReplies : net' = net \cup { Datagram(CallAddr, OtherAddr, b) }
    /\ call' = [call EXCEPT !.stray = TRUE]
    /\ UNCHANGED << disk, changes, sessions, cb, nfc, screen, android, other, verify, snd, tvars, rvars, peer,
                    discovery_socket, running, listener, hist >>

\* discover_session up to its recvfrom: a new socket, one sendto
DiscoverSession ==
    /\ call.pc \in {"idle", "done"} /\ ops < MaxOps
    /\ ops' = ops + 1
    /\ \E session_id \in SessionIds :
         LET c == [CallIdle EXCEPT !.pc = "sent", !.session_id = session_id,
                                   !.port = call.port + 1, !.sends = 1]
         IN /\ call' = c
            /\ net' = Receivable(net \cup { Datagram(ListenerAddr, Addr("receiver", c.port),
                                                     JsonDumps(DiscoveryMsg(session_id))) },
                                  listener, running, Addr("receiver", c.port))
    /\ UNCHANGED << disk, changes, sessions, cb, nfc, screen, android, other, verify, snd, tvars, rvars, peer,
                    discovery_socket, running, listener, hist >>

\* a faulty test, for comparison: the session id of the reply is not compared
MatchesType(response, session_id) == DictGet(response, "type") = Str("session_response")
\* the test of discover_session on the decoded reply
Matches(response, session_id) ==
    /\ DictGet(response, "type") = Str("session_response")
    /\ DictGet(response, "session_id") = Str(session_id)

\* what discover_session returns once recvfrom has returned data
DiscoverResult(data, session_id) ==
    IF ~Decodable(data) THEN None                      \* UnicodeDecodeError
    ELSE IF ~JsonLoads(data).ok THEN None              \* JSONDecodeError
    ELSE LET response == JsonLoads(data).v
         IN IF response.j # "obj" THEN None            \* no .get
            ELSE IF Matches(response, session_id) THEN DictGet(response, "endpoint")
            ELSE None

\* discover_session: recvfrom returns a datagram, and the call returns;
\* the socket is closed with the datagrams still addressed to it
DiscoverReply ==
    /\ CallOpen
    /\ \E dg \in net :
         /\ dg.to = CallAddr
         /\ call' = [call EXCEPT !.pc = "done", !.recvs = @ + 1, !.reply = dg.b,
                                 !.result = DiscoverResult(dg.b, call.session_id)]
         /\ net' = Receivable(net, listener, running, NoAddr)
    /\ UNCHANGED << disk, changes, sessions, ops, cb, nfc, screen, android, other, verify, snd, tvars, rvars, peer,
                    discovery_socket, running, listener, hist >>

\* discover_session: socket.timeout; nothing has arrived in 5 seconds
DiscoverTimeout ==
    /\ CallOpen
    /\ call' = [call EXCEPT !.pc = "done", !.result = None,
                            !.late = \E dg \in net : dg.to = CallAddr \/ dg.from = CallAddr]
    /\ net' = Receivable(net, listener, running, NoAddr)
    /\ UNCHANGED << disk, changes, sessions, ops, cb, nfc, screen, android, other, verify, snd, tvars, rvars, peer,
                    discovery_socket, running, listener, hist >>

InitDiscovery == Init /\ ~cb

NextDiscovery ==
    \/ CreateSession
    \/ CleanupSession
    \/ Stop
    \/ StrayQuery
    \/ StrayReply
    \/ DiscoverSession
    \/ ListenerHandle
    \/ ListenerExit
    \/ DiscoverReply
    \/ DiscoverTimeout

SpecDiscovery == InitDiscovery /\ [][NextDiscovery]_vars

(***************************************************************************)
(* Properties of session discovery.                                        *)
(***************************************************************************)
\* the datagram is a session_discovery object
IsQuery(b) ==
    /\ Decodable(b) /\ JsonLoads(b).ok
    /\ JsonLoads(b).v.j = "obj"
    /\ DictGet(JsonLoads(b).v, "type") = Str("session_discovery")
QueryId(b) == DictGet(JsonLoads(b).v, "session_id")

\* the datagram is a session_response object for session x
IsResponseFor(b, x) ==
    /\ Decodable(b) /\ JsonLoads(b).ok
    /\ JsonLoads(b).v.j = "obj"
    /\ DictGet(JsonLoads(b).v, "type") = Str("session_response")
    /\ DictGet(JsonLoads(b).v, "session_id") = Str(x)

Endpoint == FormatEndpoint(local_ip, transfer_port)

\* C7: the discovery thread sends a datagram only in reply to a
\* session_discovery message whose session_id is registered when the message
\* is handled; the reply goes to the sender of the query, repeats the
\* session_id with type session_response and carries the endpoint
\* local_ip:transfer_port.  A query for an unregistered id and a message of
\* another type produce no datagram.
C7_ReplyOnlyToRegisteredQuery ==
    /\ hist.out # <<>> =>
         /\ Len(hist.out) = 1
         /\ IsQuery(hist.b)
         /\ QueryId(hist.b).j = "str" /\ QueryId(hist.b).s \in hist.registered
         /\ hist.out[1].to = hist.from
         /\ hist.out[1].from = ListenerAddr
         /\ Decodable(hist.out[1].b)
         /\ JsonLoads(hist.out[1].b) =
              [ok |-> TRUE, v |-> Response(QueryId(hist.b), Endpoint)]
    /\ ( /\ hist.b # <<>>
         /\ \/ ~IsQuery(hist.b)
            \/ QueryId(hist.b).j # "str"
            \/ QueryId(hist.b).s \notin hist.registered ) => hist.out = <<>>
    /\ \A dg \in net :
         dg.from = ListenerAddr =>
           /\ CallOpen /\ dg.to = CallAddr /\ call.handled = "registered"
           /\ dg.b = JsonDumps(Response(Str(call.session_id), Endpoint))

\* a registered query of the running call has been answered
C7_Witness ==
    /\ hist.out # <<>> /\ hist.from = CallAddr
    /\ \E dg \in net : dg.from = ListenerAddr

\* C8: discover_session(X) returns None when the sender host does not have X
\* registered (or its discovery thread does not handle the query), and returns
\* the endpoint of the host when the thread handles the query with X
\* registered and no datagram of the call is lost or late; only the program's
\* own datagrams reaching the socket of the call.
C8_DiscoverResult ==
    (call.pc = "done" /\ ~call.stray) =>
        /\ (call.handled = "registered" /\ ~call.late) => call.result = Endpoint
        /\ call.handled # "registered" => call.result = None

C8_Witness ==
    /\ call.pc = "done" /\ ~call.stray /\ ~call.late
    /\ call.handled = "registered" /\ call.result = Endpoint

\* C9: one call sends one session_discovery datagram and consumes at most one
\* reply; it returns an endpoint only if that reply is a session_response for
\* the requested session, and None on timeout and on any other reply.
C9_OneQueryOneReply ==
    /\ CallOpen => call.sends = 1 /\ call.recvs = 0
    /\ call.pc = "done" =>
         /\ call.sends = 1 /\ call.recvs <= 1
         /\ call.result # None =>
              call.recvs = 1 /\ IsResponseFor(call.reply, call.session_id)
         /\ (call.recvs = 0 \/ ~IsResponseFor(call.reply, call.session_id)) =>
              call.result = None
    /\ \A dg \in net : dg.from = Addr("receiver", call.port) => IsQuery(dg.b)

\* the call has consumed a reply that is not a response for its session,
\* with the answer of the discovery thread still on its way
C9_Witness ==
    /\ call.pc = "done" /\ call.recvs = 1
    /\ ~IsResponseFor(call.reply, call.session_id)
    /\ call.handled = "registered"
    /\ call.result = None

\* C10: the discovery thread runs for the Manager's lifetime: until stop(), no
\* datagram ends the listen loop.
C10_ListenerSurvives == running => listener = "running"

(***************************************************************************)
(* The start of the discovery thread against stop().  __init__ returns     *)
(* once the thread is started; the thread creates its socket, binds it     *)
(* and enters the loop on its own schedule.                                *)
(***************************************************************************)
\* discovery_worker: socket.socket(...), stored in self._discovery_socket
ListenerSocket ==
    /\ listener = "starting"
    /\ listener' = "created"
    /\ discovery_socket' = "open"
    /\ UNCHANGED << disk, changes, sessions, ops, cb, nfc, screen, android, other, verify, snd, tvars, rvars, peer,
                    running, net, call, hist >>

\* discovery_worker: setsockopt, bind, settimeout; on a socket stop() has
\* closed they raise, and the outer except ends the thread
ListenerBind ==
    /\ listener = "created"
    /\ listener' = IF discovery_socket = "closed" THEN "dead" ELSE "running"
    /\ UNCHANGED << disk, changes, sessions, ops, cb, nfc, screen, android, other, verify, snd, tvars, rvars, peer,
                    running, discovery_socket, net, call, hist >>

\* the state __init__ returns in
InitStop ==
    /\ disk = InitDisk
    /\ changes = 0
    /\ sessions = << >>
    /\ ops = 0
    /\ cb = FALSE
    /\ other = OtherIdle
    /\ verify = VerifyIdle
    /\ android = AndroidFileSelector(FALSE)
    /\ nfc = NfcIdle
    /\ screen = NFCScreen
    /\ snd = SndIdle
    /\ server_socket = "none"
    /\ accepted = "none"
    /\ backlog = FALSE
    /\ wire = <<>>
    /\ rcv = RcvIdle
    /\ client_socket = "none"
    /\ dest = << >>
    /\ made = {}
    /\ slog = <<>>
    /\ rlog = <<>>
    /\ peer = PeerIdle
    /\ running = TRUE
    /\ listener = "starting"
    /\ discovery_socket = "none"
    /\ net = {}
    /\ call = CallIdle
    /\ hist = HistNone

NextStop ==
    \/ ListenerSocket
    \/ ListenerBind
    \/ ListenerHandle
    \/ ListenerExit
    \/ Stop
    \/ CreateSession
    \/ StrayQuery
    \/ DiscoverSession
    \/ DiscoverReply
    \/ DiscoverTimeout

SpecStop == InitStop /\ [][NextStop]_vars

\* C11: once stop() has been called and the discovery thread has left its
\* loop, the discovery socket is closed, whatever the interleaving of stop()
\* with the start of the thread.
C11_StopReleasesSocket ==
    (~running /\ listener \in {"stopped", "dead"}) => discovery_socket = "closed"

(***************************************************************************)
(* Properties of the session registry and of progress.                     *)
(***************************************************************************)
\* C12: every registered session has transferred_size <= total_size.
C12_TransferredWithinTotal ==
    \A sid \in DOMAIN sessions :
        sessions[sid].transferred_size <= sessions[sid].total_size

(***************************************************************************)
(* send_files against a client that is not this program: it connects to    *)
(* the transfer port whenever a send_files listens, and may hang up.       *)
(***************************************************************************)
\* a client connects to the listening socket
ClientConnect ==
    /\ server_socket = "listening" /\ accepted = "none" /\ ~backlog
    /\ backlog' = TRUE
    /\ client_socket' = "open"
    /\ UNCHANGED << disk, changes, sessions, ops, cb, nfc, screen, android, other, verify, snd, server_socket, accepted,
                    wire, slog, rcv, dest, made, rlog, peer, dvars >>

\* the client closes its end of the connection
ClientClose ==
    /\ client_socket = "open"
    /\ client_socket' = "closed"
    /\ UNCHANGED << disk, changes, sessions, ops, cb, nfc, screen, android, other, verify, snd, tvars, rcv, dest, made,
                    rlog, peer, dvars >>

NextSend ==
    \/ EnvChange
    \/ CreateSession
    \/ CleanupSession
    \/ SendFiles
    \/ SendAcceptTimeout
    \/ SendMetadata
    \/ SendFile
    \/ SendChunk
    \/ ClientConnect
    \/ ClientClose

SpecSend == Init /\ [][NextSend]_vars

\* the number of file bytes a log records
RECURSIVE DataBytes(_)
DataBytes(log) ==
    IF log = <<>> THEN 0
    ELSE (IF Head(log).e = "data" THEN Head(log).n ELSE 0) + DataBytes(Tail(log))

\* C13: transferred_size counts the bytes of the current operation only: while
\* a send_files runs, the counter of its session equals the number of file
\* bytes this call has sent (0 when it starts).
C13_CountsCurrentOperation ==
    snd.pc \in {"accept", "file", "chunk"} =>
        sessions[snd.session_id].transferred_size = DataBytes(slog)

\* C14: every percentage passed to a progress callback, by send_files and by
\* receive_files, lies in [0, 100]: the bytes moved never exceed the total.
C14_ProgressInRange ==
    /\ snd.progress # <<>> =>
         0 <= snd.progress[1] /\ snd.progress[1] <= snd.progress[2]
    /\ rcv.progress # <<>> =>
         0 <= rcv.progress[1] /\ rcv.progress[1] <= rcv.progress[2]

\* the sum of the size fields of the entries of a file_metadata dictionary
RECURSIVE SumSizes(_)
SumSizes(kv) ==
    IF kv = <<>> THEN 0 ELSE Get(Head(kv).val, "size").n + SumSizes(Tail(kv))

\* C15: whatever list of paths create_session was given, the session's
\* total_size is the sum of the size fields of its file_metadata entries and
\* every entry's chunks field is floor(size / 8192) + 1.
C15_TotalIsSumOfSizes ==
    \A sid \in DOMAIN sessions :
        /\ sessions[sid].total_size = SumSizes(sessions[sid].file_metadata)
        /\ \A i \in 1..Len(sessions[sid].file_metadata) :
             LET e == sessions[sid].file_metadata[i].val
             IN Get(e, "chunks").n = (Get(e, "size").n \div CHUNK) + 1

\* C16: a registered session whose total_size is 0 has an empty files list.
C16_ZeroTotalMeansNoFiles ==
    \A sid \in DOMAIN sessions :
        sessions[sid].total_size = 0 => sessions[sid].files = <<>>

\* the sessions a step has registered or replaced
Created == { sid \in DOMAIN sessions' :
               sid \notin DOMAIN sessions \/ sessions'[sid] # sessions[sid] }

\* C17: create_session registers the session whatever the state of the paths,
\* and the session's file_metadata has an entry for exactly those paths of its
\* list that exist and can be read: missing and unreadable paths are omitted.
C17_UnusablePathsOmitted ==
    [][CreateSession =>
         \A sid \in Created :
             \A i \in 1..Len(sessions'[sid].files) :
                 LET p == sessions'[sid].files[i]
                 IN (\E j \in 1..Len(sessions'[sid].file_metadata) :
                        sessions'[sid].file_metadata[j].key = PathMd5(p))
                    <=> (disk[p].exists /\ disk[p].readable)]_vars

\* C18: a step of cleanup_session(X) leaves X out of the registry, keeps every
\* other session as it was and adds none, and a second cleanup_session(X)
\* right after it raises nothing and leaves the registry as the first left it.
C18_CleanupIdempotent ==
    [][CleanupSession =>
         \E X \in SessionIds :
             /\ X \notin DOMAIN sessions'
             /\ DOMAIN sessions' = DOMAIN sessions \ {X}
             /\ \A s \in DOMAIN sessions' : sessions'[s] = sessions[s]
             /\ ~Cleanup(sessions', X).raised
             /\ Cleanup(sessions', X).sessions = sessions']_vars

\* two calls so far, no transfer started, and the registry is empty: the
\* second call was a cleanup_session, of the session the first call created
\* or of an identifier the first cleanup_session had already found absent
C18_Witness ==
    /\ ops = 2 /\ changes = 0
    /\ snd = SndIdle /\ rcv = RcvIdle
    /\ DOMAIN sessions = {}

\* C19: when send_files has returned, on whichever path, the listening socket
\* and the accepted connection it opened have both been closed.
C19_SocketsClosedOnReturn ==
    snd.pc = "done" =>
        /\ server_socket \in {"none", "closed"}
        /\ accepted \in {"none", "closed"}

(***************************************************************************)
(* Two send_files calls on one host: the call modelled above and a second  *)
(* one on another thread.  Both bind the transfer port of local_ip with    *)
(* SO_REUSEADDR set; the second call's transfer is reduced to its result.  *)
(***************************************************************************)
\* the second call fails at bind or listen: the outer except, socket dropped
OtherRaise(contended) ==
    [other EXCEPT !.pc = "done", !.result = "False", !.server_socket = "gc",
                  !.contended = @ \/ contended]

\* send_files on the second thread, up to bind()
SendFilesOther ==
    /\ other.pc = "idle" /\ ops < MaxOps
    /\ ops' = ops + 1
    /\ \E session_id \in SessionIds :
         IF session_id \notin DOMAIN sessions
         THEN other' = [other EXCEPT !.pc = "done", !.result = "False"]
         ELSE \E busy \in InUse(server_socket) :
                other' = IF busy
                         THEN OtherRaise(server_socket = "listening")
                         ELSE [other EXCEPT !.pc = "bound", !.server_socket = "bound",
                                            !.contended = (server_socket = "listening")]
    /\ UNCHANGED << disk, changes, sessions, cb, nfc, screen, android, verify, snd, tvars, rvars, peer, dvars >>

\* listen(1) of the second call
OtherListen ==
    /\ other.pc = "bound"
    /\ \E busy \in InUse(server_socket) :
         other' = IF busy
                  THEN OtherRaise(server_socket = "listening")
                  ELSE [other EXCEPT !.pc = "listening", !.server_socket = "listening",
                                     !.contended = @ \/ (server_socket = "listening")]
    /\ UNCHANGED << disk, changes, sessions, ops, cb, nfc, screen, android, verify, snd, tvars, rvars, peer, dvars >>

\* a client connects to the transfer port while the second call listens
ClientConnectOther ==
    /\ other.pc = "listening" /\ ~other.backlog
    /\ client_socket # "open"
    /\ other' = [other EXCEPT !.backlog = TRUE]
    /\ client_socket' = "open"
    /\ UNCHANGED << disk, changes, sessions, ops, cb, nfc, screen, android, verify, snd, tvars, rcv, dest, made,
                    rlog, peer, dvars >>

\* accept() of the second call returns the connection
OtherAccept ==
    /\ other.pc = "listening" /\ other.backlog
    /\ other' = [other EXCEPT !.pc = "serving", !.accepted = "open", !.backlog = FALSE]
    /\ UNCHANGED << disk, changes, sessions, ops, cb, nfc, screen, android, verify, snd, tvars, rvars, peer, dvars >>

\* accept() of the second call times out
OtherTimeout ==
    /\ other.pc = "listening" /\ ~other.backlog
    /\ other' = [other EXCEPT !.pc = "done", !.result = "False",
                              !.server_socket = "closed"]
    /\ UNCHANGED << disk, changes, sessions, ops, cb, nfc, screen, android, verify, snd, tvars, rvars, peer, dvars >>

\* the second call sends its files and returns, or fails on the way
OtherFinish ==
    /\ other.pc = "serving"
    /\ \/ other' = [other EXCEPT !.pc = "done", !.result = "True",
                                 !.server_socket = "closed", !.accepted = "closed"]
       \/ other' = [other EXCEPT !.pc = "done", !.result = "False",
                                 !.server_socket = "gc", !.accepted = "gc"]
    /\ UNCHANGED << disk, changes, sessions, ops, cb, nfc, screen, android, verify, snd, tvars, rvars, peer, dvars >>

NextConcurrent ==
    \/ CreateSession
    \/ SendFiles
    \/ SendAcceptTimeout
    \/ SendMetadata
    \/ SendFile
    \/ SendChunk
    \/ ClientConnect
    \/ ClientClose
    \/ SendFilesOther
    \/ OtherListen
    \/ ClientConnectOther
    \/ OtherAccept
    \/ OtherTimeout
    \/ OtherFinish

SpecConcurrent == Init /\ [][NextConcurrent]_vars

\* C20: of two send_files calls running at once on the host at most one has a
\* listening socket on the transfer port, a call that reaches bind or listen
\* while the other's socket listens returns False, and the client's
\* connection is never open in both calls.
C20_OneListener ==
    /\ ~(server_socket = "listening" /\ other.server_socket = "listening")
    /\ other.contended => (other.pc = "done" /\ other.result = "False")
    /\ ~(accepted = "open" /\ other.accepted = "open")

\* the second call has failed on the busy port while the first still listens
C20_Witness ==
    /\ other.contended /\ other.pc = "done" /\ other.result = "False"
    /\ server_socket = "listening" /\ snd.pc \in {"accept", "file", "chunk"}

(***************************************************************************)
(* Properties of the results of the public operations.                     *)
(***************************************************************************)
\* the peer wrote a whole, well-formed frame for the requested session and
\* then fewer file bytes than the frame declares
StreamShort ==
    /\ ~BadMetadata
    /\ BytesLen(peer.stream) - BytesLen(SendJson(peer.sent))
         < SumSizes(Get(peer.sent, "files").kv)

\* C21: no error escapes receive_files, and every failure of the transfer
\* (no or malformed metadata, a timeout, a stream the peer ends before the
\* declared bytes have arrived) ends with receive_files returning False.
C21_FailuresReturnFalse ==
    rcv.pc = "done" =>
        /\ rcv.result \in {"True", "False"}
        /\ (BadMetadata \/ StreamShort) => rcv.result = "False"

(***************************************************************************)
(* receive_files with its discovery: discover_session first, then          *)
(* _receive_files_direct on the endpoint it returned.                      *)
(***************************************************************************)
\* a faulty resolution, for comparison: the sender's address is assumed
EndpointHostAssumed(endpoint) == "sender"

\* where receive_files goes with the value discover_session returned:
\* "none" (if not endpoint: return False), "raise" (split or int fails), or
\* the host of the endpoint
EndpointHost(endpoint) ==
    IF Falsy(endpoint) THEN "none"
    ELSE IF endpoint.j # "str" THEN "raise"
    ELSE IF endpoint = FormatEndpoint(local_ip, transfer_port) THEN "sender"
    ELSE IF endpoint = FormatEndpoint("other", transfer_port) THEN "other"
    ELSE "raise"

\* receive_files up to the sendto of discover_session
ReceiveFilesDiscover ==
    /\ rcv.pc \in {"idle", "done"} /\ call.pc \in {"idle", "done"} /\ ops < MaxOps
    /\ ops' = ops + 1
    /\ \E session_id \in SessionIds :
         LET c == [CallIdle EXCEPT !.pc = "sent", !.session_id = session_id,
                                   !.port = call.port + 1, !.sends = 1]
         IN /\ call' = c
            /\ rcv' = [RcvIdle EXCEPT !.pc = "discover", !.session_id = session_id]
            /\ net' = Receivable(net \cup { Datagram(ListenerAddr, Addr("receiver", c.port),
                                                     JsonDumps(DiscoveryMsg(session_id))) },
                                  listener, running, Addr("receiver", c.port))
    /\ client_socket' = "none"
    /\ rlog' = <<>>
    /\ UNCHANGED << disk, changes, sessions, cb, nfc, screen, android, other, verify, snd, tvars, dest, made, peer,
                    discovery_socket, running, listener, hist >>

\* discover_session has returned: the test of the endpoint, and the start of
\* _receive_files_direct up to the creation of its socket.  No program
\* listens on the transfer port of another host: connect to it fails.
ReceiveResolved ==
    /\ rcv.pc = "discover" /\ call.pc = "done"
    /\ LET host == EndpointHost(call.result)
       IN CASE host = "none" -> ReceiveReturn(rcv, "False", client_socket)
            [] host = "raise" -> ReceiveReturn(rcv, "False", client_socket)
            [] host = "other" -> ReceiveReturn(rcv, "False", "gc")
            [] OTHER -> /\ rcv' = [rcv EXCEPT !.pc = "connect"]
                        /\ UNCHANGED client_socket
    /\ UNCHANGED << disk, changes, sessions, ops, cb, nfc, screen, android, other, verify, snd, tvars, dest, made, rlog,
                    peer, dvars >>

NextReceive ==
    \/ CreateSession
    \/ Stop
    \/ StrayReply
    \/ ListenerHandle
    \/ ListenerExit
    \/ DiscoverReply
    \/ DiscoverTimeout
    \/ ReceiveFilesDiscover
    \/ ReceiveResolved
    \/ SendFiles
    \/ SendAcceptTimeout
    \/ SendMetadata
    \/ SendFile
    \/ SendChunk
    \/ ReceiveConnect
    \/ ReceivePrefix
    \/ ReceivePayload
    \/ ReceiveFile
    \/ ReceiveChunk

SpecReceive == InitDiscovery /\ [][NextReceive]_vars

\* C22: receive_files connects only after its discover_session has returned
\* an endpoint, and when discover_session returns None or an empty endpoint
\* it returns False with no socket opened and with the destination directory
\* and its files as they were.
C22_UnresolvedFailsEarly ==
    [][/\ (rcv'.pc = "connect" /\ rcv.pc # "connect") =>
             (rcv.pc = "discover" /\ call.pc = "done" /\ ~Falsy(call.result))
       /\ (rcv.pc = "discover" /\ rcv'.pc # "discover" /\ Falsy(call.result)) =>
             /\ rcv'.pc = "done" /\ rcv'.result = "False"
             /\ client_socket' = "none" /\ ~backlog'
             /\ made' = made /\ dest' = dest]_vars

\* receive_files has returned False on an empty endpoint, with no socket
C22_Witness ==
    /\ rcv.pc = "done" /\ rcv.result = "False" /\ client_socket = "none"
    /\ call.pc = "done" /\ call.result = Str("")

(***************************************************************************)
(* send_files while another thread of the host registers and removes       *)
(* other sessions.                                                         *)
(***************************************************************************)
\* create_session for another session, called while send_files runs
CreateSessionDuring ==
    /\ ~CallerFree /\ ops < MaxOps
    /\ \E in \in CreateInputs :
         /\ in[1] # snd.session_id
         /\ sessions' = [s \in DOMAIN sessions \cup {in[1]} |->
                           IF s = in[1] THEN TransferSession(disk, in[1], in[2])
                           ELSE sessions[s]]
    /\ ops' = ops + 1
    /\ UNCHANGED << disk, changes, cb, nfc, screen, android, other, verify, snd, tvars, rvars, peer, dvars >>

\* cleanup_session for another session, called while send_files runs
CleanupSessionDuring ==
    /\ ~CallerFree /\ ops < MaxOps
    /\ \E session_id \in SessionIds \ {snd.session_id} :
         /\ ~Cleanup(sessions, session_id).raised
         /\ sessions' = Cleanup(sessions, session_id).sessions
    /\ ops' = ops + 1
    /\ UNCHANGED << disk, changes, cb, nfc, screen, android, other, verify, snd, tvars, rvars, peer, dvars >>

NextInterleaved ==
    \/ CreateSession
    \/ CleanupSession
    \/ SendFiles
    \/ SendAcceptTimeout
    \/ SendMetadata
    \/ SendFile
    \/ SendChunk
    \/ ClientConnect
    \/ ClientClose
    \/ CreateSessionDuring
    \/ CleanupSessionDuring

SpecInterleaved == Init /\ [][NextInterleaved]_vars

\* a step of send_files: the call, or a step of _send_files_direct
SendStep == SendFiles \/ SendAcceptTimeout \/ SendMetadata \/ SendFile \/ SendChunk

\* C23: a step of send_files on session A leaves the set of registered ids as
\* it was, changes no field of A other than transferred_size (files,
\* file_metadata and total_size stay) and changes nothing in any other session.
C23_SendChangesOnlyTransferred ==
    [][SendStep =>
         /\ DOMAIN sessions' = DOMAIN sessions
         /\ \A s \in DOMAIN sessions :
              /\ [sessions'[s] EXCEPT !.transferred_size = sessions[s].transferred_size]
                   = sessions[s]
              /\ s # snd'.session_id => sessions'[s] = sessions[s]]_vars

\* send_files has moved bytes of s2 while s1 is registered and untouched
C23_Witness ==
    /\ snd.pc \in {"file", "chunk"} /\ snd.session_id = "s2"
    /\ sessions["s2"].transferred_size > 0
    /\ "s1" \in DOMAIN sessions /\ sessions["s1"].transferred_size = 0

\* C24: a registered session's is_active flag is TRUE exactly while a
\* send_files operation is running on that session: TRUE from the call to its
\* return, FALSE before the first operation and after each has returned.
C24_ActiveWhileSending ==
    \A sid \in DOMAIN sessions :
        sessions[sid].is_active <=>
            (snd.pc \notin {"idle", "done"} /\ snd.session_id = sid)

(***************************************************************************)
(* Checksum verification of a materialized file:                           *)
(* FileManager.verify_file_integrity (file_manager.py) and verify_checksum *)
(* (utils.py).                                                             *)
(***************************************************************************)
LARGE == 104857600

\* the files handed to the verification routines
VerifyFiles ==
    { File(TRUE, TRUE, <<>>),
      File(TRUE, TRUE, << Data(2, 0, 10) >>),
      File(TRUE, TRUE, << Data(1, 0, 16385) >>),
      File(TRUE, TRUE, << Data(3, 0, LARGE) >>) }

\* str.upper() and str.lower() of a text
Upper(text) == IF text.alg \in {"", "none"} THEN text ELSE [text EXCEPT !.case = "upper"]
Lower(text) == IF text.alg \in {"", "none"} THEN text ELSE [text EXCEPT !.case = "lower"]

\* the expected_checksum values passed for file f
ExpectedChecksums(f) ==
    { EmptyText, NoneText,
      Hexdigest("md5", f.content), Upper(Hexdigest("md5", f.content)),
      Hexdigest("sha256", f.content), Upper(Hexdigest("sha256", f.content)),
      Hexdigest("md5", << Data(9, 0, 1) >>) }

Algorithms == {"md5", "sha256", "sha1"}

\* FileInfo(file_path).checksum: _load_info digests files below 100 MB
FileInfoChecksum(f) ==
    IF ~f.exists THEN EmptyText
    ELSE IF BytesLen(f.content) < LARGE
    THEN (IF f.readable THEN Hexdigest("md5", f.content) ELSE EmptyText)
    ELSE EmptyText

\* FileManager.verify_file_integrity(file_path, expected_checksum)
VerifyFileIntegrityResult(f, expected) ==
    IF expected \in {EmptyText, NoneText} THEN TRUE
    ELSE FileInfoChecksum(f) = expected

\* utils.verify_checksum(file_path, expected_checksum, algorithm)
VerifyChecksumResult(f, expected, algorithm) ==
    IF algorithm \notin {"md5", "sha256"} THEN FALSE
    ELSE IF ~(f.exists /\ f.readable) THEN FALSE             \* open raises
    ELSE IF expected = NoneText THEN FALSE                  \* None has no lower()
    ELSE Lower(Hexdigest(algorithm, f.content)) = Lower(expected)

VerifyFileIntegrity ==
    /\ \E f \in VerifyFiles : \E expected \in ExpectedChecksums(f) :
         verify' = [routine |-> "verify_file_integrity", file |-> f,
                    expected |-> expected, algorithm |-> "md5",
                    result |-> VerifyFileIntegrityResult(f, expected)]
    /\ UNCHANGED << disk, changes, sessions, ops, cb, nfc, screen, android, other, snd, tvars, rvars, peer, dvars >>

VerifyChecksum ==
    /\ \E f \in VerifyFiles : \E expected \in ExpectedChecksums(f) :
         \E algorithm \in Algorithms :
            verify' = [routine |-> "verify_checksum", file |-> f,
                       expected |-> expected, algorithm |-> algorithm,
                       result |-> VerifyChecksumResult(f, expected, algorithm)]
    /\ UNCHANGED << disk, changes, sessions, ops, cb, nfc, screen, android, other, snd, tvars, rvars, peer, dvars >>

NextVerify ==
    \/ VerifyFileIntegrity
    \/ VerifyChecksum

SpecVerify == InitDiscovery /\ [][NextVerify]_vars

\* C25: a verification against an absent (empty) expected checksum reports
\* the file valid, in verify_file_integrity and in verify_checksum.
C25_NoChecksumIsValid ==
    (verify.routine # "none" /\ verify.expected = EmptyText) => verify.result

\* C26: a verification against a non-empty expected checksum reports valid
\* exactly when the digest of the file's bytes equals the expected value
\* compared without regard to case, for files of every size, in both routines.
C26_ValidIffDigestMatches ==
    (/\ verify.routine # "none"
     /\ verify.expected \notin {EmptyText, NoneText}
     /\ verify.algorithm \in {"md5", "sha256"}) =>
        (verify.result <=>
           Lower(verify.expected) = Hexdigest(verify.algorithm, verify.file.content))

(***************************************************************************)
(* android_utils: request_file_permissions and open_android_file_selector  *)
(* on the global AndroidFileSelector.  Callbacks return normally.          *)
(***************************************************************************)
Callbacks == {"on_permissions", "on_files"}

\* a call, and what it passed to its callback before returning
CallRecord(op, callback, during) == [op |-> op, callback |-> callback, during |-> during]

\* what request_permissions passes to the callback before it returns: True
\* off Android; on Android True or False from the settings screen or the
\* except clause, or nothing yet when the platform is asked
RequestPermissionsDuring(available) ==
    IF ~available THEN { << "True" >> }
    ELSE { << "True" >>, << "False" >>, <<>> }

\* a faulty selector, for comparison: it keeps the callback before the test
RetainedAlways(available, old, callback) == callback

\* self.callback after open_file_selector(callback)
Retained(available, old, callback) == IF ~available THEN old ELSE callback

\* what open_file_selector passes to the callback before it returns: the
\* empty list off Android and in the except clause, nothing once the chooser
\* activity is started
OpenFileSelectorDuring(available) ==
    IF ~available THEN { << "[]" >> } ELSE { << "[]" >>, <<>> }

\* request_file_permissions(callback)
RequestFilePermissions ==
    /\ ops < MaxOps
    /\ ops' = ops + 1
    /\ \E callback \in Callbacks : \E during \in RequestPermissionsDuring(android.available) :
         android' = [android EXCEPT
                       !.log = Append(@, CallRecord("request_file_permissions", callback, during)),
                       !.pending = IF during = <<>> THEN @ \cup {callback} ELSE @]
    /\ UNCHANGED << disk, changes, sessions, cb, nfc, screen, other, verify, snd, tvars, rvars, peer, dvars >>

\* permission_callback: the platform delivers the result of the request
PermissionCallback ==
    /\ \E callback \in android.pending :
         android' = [android EXCEPT !.pending = @ \ {callback},
                                    !.late = @ \cup {callback}]
    /\ UNCHANGED << disk, changes, sessions, ops, cb, nfc, screen, other, verify, snd, tvars, rvars,
                    peer, dvars >>

\* open_android_file_selector(callback, allow_multiple)
OpenAndroidFileSelector ==
    /\ ops < MaxOps
    /\ ops' = ops + 1
    /\ \E callback \in Callbacks : \E during \in OpenFileSelectorDuring(android.available) :
         android' = [android EXCEPT
                       !.log = Append(@, CallRecord("open_android_file_selector", callback, during)),
                       !.callback = Retained(android.available, @, callback)]
    /\ UNCHANGED << disk, changes, sessions, cb, nfc, screen, other, verify, snd, tvars, rvars, peer, dvars >>

\* _on_activity_result for request code 1001: self.callback is called
OnActivityResult ==
    /\ android.callback # "none"
    /\ android' = [android EXCEPT !.late = @ \cup {android.callback}]
    /\ UNCHANGED << disk, changes, sessions, ops, cb, nfc, screen, other, verify, snd, tvars, rvars,
                    peer, dvars >>

InitAndroid ==
    /\ disk = InitDisk
    /\ changes = 0
    /\ sessions = << >>
    /\ ops = 0
    /\ cb = FALSE
    /\ other = OtherIdle
    /\ verify = VerifyIdle
    /\ android \in { AndroidFileSelector(available) : available \in BOOLEAN }
    /\ nfc = NfcIdle
    /\ screen = NFCScreen
    /\ snd = SndIdle
    /\ server_socket = "none"
    /\ accepted = "none"
    /\ backlog = FALSE
    /\ wire = <<>>
    /\ rcv = RcvIdle
    /\ client_socket = "none"
    /\ dest = << >>
    /\ made = {}
    /\ slog = <<>>
    /\ rlog = <<>>
    /\ peer = PeerIdle
    /\ running = TRUE
    /\ listener = "running"
    /\ discovery_socket = "open"
    /\ net = {}
    /\ call = CallIdle
    /\ hist = HistNone

NextAndroid ==
    \/ RequestFilePermissions
    \/ PermissionCallback
    \/ OpenAndroidFileSelector
    \/ OnActivityResult

SpecAndroid == InitAndroid /\ [][NextAndroid]_vars

\* C27: on a host without the Android modules every request_file_permissions
\* call has invoked its callback exactly once, with True, before returning,
\* every open_android_file_selector call has invoked its callback exactly
\* once, with the empty list, before returning, and no callback is kept: none
\* is stored in the selector, handed to the platform, or invoked later.
C27_MockCallsBackOnce ==
    ~android.available =>
        /\ \A i \in 1..Len(android.log) :
             android.log[i].during =
                 IF android.log[i].op = "request_file_permissions"
                 THEN << "True" >> ELSE << "[]" >>
        /\ android.callback = "none"
        /\ android.pending = {}
        /\ android.late = {}

\* both functions have been called on a host without the Android modules
C27_Witness ==
    /\ ~android.available
    /\ \E i, j \in 1..Len(android.log) :
         /\ android.log[i].op = "request_file_permissions"
         /\ android.log[j].op = "open_android_file_selector"

(***************************************************************************)
(* The receiver's reads of file bytes.                                     *)
(***************************************************************************)
\* the declared size of the k-th file of the metadata received
DeclaredSize(k) == Get(FilesOf(rcv.metadata)[k].val, "size").n

\* the sum of the declared sizes of the files before the k-th
RECURSIVE DeclaredBefore(_)
DeclaredBefore(k) == IF k <= 1 THEN 0 ELSE DeclaredBefore(k - 1) + DeclaredSize(k - 1)

\* the bytes the peer wrote after its metadata frame
PeerFileBytes == DropBytes(peer.stream, BytesLen(SendJson(peer.sent)))

\* C28: while a file is received every read asks for at most
\* min(8192, declared size - bytes received) bytes, bytes_received never
\* exceeds the declared size, what was read is in the file before the next
\* read, and the bytes taken for a file are those of its own segment of the
\* stream: none belongs to the next file.
C28_ReadsWithinFile ==
    /\ rcv.pc = "chunk" =>
         LET file_info == FilesOf(rcv.metadata)[rcv.idx].val
             want == Want(DeclaredSize(rcv.idx), rcv.bytes_received)
         IN /\ rcv.bytes_received < DeclaredSize(rcv.idx)
            /\ 0 < want /\ want <= CHUNK
            /\ want <= DeclaredSize(rcv.idx) - rcv.bytes_received
            /\ BytesLen(dest[FilePath(Get(file_info, "name").s)]) = rcv.bytes_received
            /\ LoggedBytes(rlog, rcv.idx) = rcv.bytes_received
    /\ \A i \in 1..Len(rlog) :
         rlog[i].e = "data" =>
            /\ rlog[i].n <= CHUNK
            /\ rlog[i].o + rlog[i].n <= DeclaredSize(rlog[i].f)
            /\ ~BadMetadata =>
                 rlog[i].b = TakeBytes(DropBytes(PeerFileBytes,
                                                 DeclaredBefore(rlog[i].f) + rlog[i].o),
                                       rlog[i].n)

\* both files of the stream have been received whole
C28_Witness ==
    /\ rcv.pc = "done" /\ rcv.result = "True"
    /\ LoggedBytes(rlog, 1) = 10 /\ LoggedBytes(rlog, 2) = 5

\* send_files has sent the metadata of a session of total_size 0 (every file
\* empty) whose files nothing has changed, and has returned
SentEmptySession ==
    /\ snd.pc = "done" /\ slog # <<>>
    /\ Get(snd.metadata, "total_size").n = 0
    /\ changes = 0

\* C29: the progress callback does not influence the transfer.  Without a
\* callback send_files returns True once it has sent the metadata of a session
\* whose files are all empty; it returns the same with a callback that
\* returns normally.
C29_CallbackNeutral ==
    SentEmptySession => snd.result = "True"

\* the reference for C29: the runs in which no callback is passed
C29_WithoutCallback ==
    (~cb /\ SentEmptySession) => snd.result = "True"

(***************************************************************************)
(* send_files against a client that connects and may never read.  The      *)
(* socket accept() returns is in blocking mode (the 30 s timeout is set on  *)
(* the listening socket only), so sendall waits as long as the connection's *)
(* buffers are full.                                                        *)
(***************************************************************************)
\* the bytes a connection holds before a write blocks
SocketBuffer == 2 * CHUNK

\* client_socket.sendall(chunk) returns once the connection has taken the chunk
Room ==
    \/ PeerGone
    \/ snd.pc = "chunk" /\
         LET file_info == sessions[snd.session_id].file_metadata[snd.idx].val
             chunk == ReadChunk(disk[Get(file_info, "path").s].content, snd.bytes_sent)
         IN BytesLen(wire) + BytesLen(chunk) <= SocketBuffer

SendChunkBuffered == Room /\ SendChunk

\* the steps of the thread that called send_files
SendThread == SendAcceptTimeout \/ SendMetadata \/ SendFile \/ SendChunkBuffered

NextStall ==
    \/ CreateSession
    \/ SendFiles
    \/ SendAcceptTimeout
    \/ SendMetadata
    \/ SendFile
    \/ SendChunkBuffered
    \/ ClientConnect
    \/ ClientClose

\* the thread can take a step: accept returns or times out, the for loop goes
\* on, or sendall finds room
SendThreadEnabled ==
    \/ snd.pc \in {"accept", "file"}
    \/ snd.pc = "chunk" /\ Room

\* the sender's call and the client's moves; the client owes nothing, so a
\* behaviour may end wherever the sending thread has no step of its own
SpecStall == Init /\ [][NextStall]_vars

\* C30: every send_files call eventually returns, whatever the client does:
\* never connects, connects and closes, or connects and never reads. The
\* call runs a bounded number of steps, so it returns exactly when it is
\* never left waiting on the client alone: while it runs, the calling thread
\* always has a step it can take by itself (a timeout that will fire, the
\* next loop step, or a sendall that finds room).
C30_SendNeverStalls ==
    snd.pc \notin {"idle", "done"} => SendThreadEnabled

(***************************************************************************)
(* The percentages one send_files call reports.                            *)
(***************************************************************************)
\* the percentage of report p is at most that of report q (pairs of bytes
\* moved and total_size, compared without dividing)
AtMost(p, q) == p[1] * q[2] <= q[1] * p[2]

\* C31: during one send_files call with a callback, every chunk written is
\* followed by a report of 100 * transferred_size / total_size, the reported
\* percentages never decrease, and a call that returns True for a session
\* with total_size > 0 has reported exactly 100 last.
C31_ProgressEndsAtHundred ==
    [][cb /\ snd.pc \in {"file", "chunk"} =>
         LET session == sessions'[snd.session_id]
         IN /\ sessions' # sessions =>
                 snd'.progress = << session.transferred_size, session.total_size >>
            /\ snd.progress # <<>> => AtMost(snd.progress, snd'.progress)
            /\ snd'.pc = "done" /\ snd'.result = "True" /\ session.total_size > 0 =>
                 snd'.progress # <<>> /\ snd'.progress[1] = snd'.progress[2]]_vars

(***************************************************************************)
(* The read-and-write steps of one file.                                   *)
(***************************************************************************)
\* the steps the running send_files has made for file k of its session
StepsOf(k) == SelectSeq(slog, LAMBDA ev : ev.e = "data" /\ ev.f = k)

\* ceil(s / 8192)
CeilChunks(s) == (s + CHUNK - 1) \div CHUNK

\* the files the running (or last) send_files has finished: the loop has
\* gone past them
FilesDone == 1 .. (snd.idx - 1)

\* the size the metadata this call has sent declares for file k
SentSize(k) == Get(Get(snd.metadata, "files").kv[k].val, "size").n

\* C32: a file of declared size s > 0 that is unchanged on disk is moved in
\* exactly ceil(s / 8192) read-and-write steps, step i starting at offset
\* 8192 * (i - 1) and carrying 8192 bytes, except the last, which carries the
\* rest; a file of size 0 takes no step.
C32_ChunkSteps ==
    changes = 0 /\ snd.pc \in {"file", "chunk", "done"} =>
        \A k \in FilesDone :
            LET s == SentSize(k)
                steps == StepsOf(k)
            IN /\ Len(steps) = CeilChunks(s)
               /\ \A i \in 1 .. Len(steps) :
                    /\ steps[i].o = CHUNK * (i - 1)
                    /\ steps[i].n = Min(CHUNK, s - CHUNK * (i - 1))

\* a 16385-byte file has gone out in three steps of 8192, 8192 and 1 bytes,
\* and a send has gone past a file of size 0
C32_Witness ==
    /\ changes = 0 /\ snd.pc = "done" /\ snd.result = "True"
    /\ \E k \in FilesDone :
         /\ SentSize(k) = 2 * CHUNK + 1
         /\ Len(StepsOf(k)) = 3
         /\ StepsOf(k)[3].n = 1

(***************************************************************************)
(* Discovery against the transfer port.                                    *)
(***************************************************************************)
\* a send_files call for session x listens on the transfer port
Serving(x) ==
    /\ snd.pc = "accept" /\ server_socket = "listening"
    /\ Str(snd.session_id) = x

\* C33: the discovery thread answers a query for session X only while a
\* send_files call for X listens on the advertised transfer port, so a
\* receiver that connects to a discovered endpoint is never refused and the
\* metadata it is served is that of session X.
C33_AnswersOnlyWhileServing ==
    [][/\ (ListenerHandle /\ hist'.out # <<>>) => Serving(QueryId(hist'.b))
       /\ (rcv.pc = "connect" /\ rcv'.pc # "connect") =>
             /\ rcv'.pc = "prefix"
             /\ snd.session_id = rcv.session_id]_vars

(***************************************************************************)
(* Where receive_files writes.                                             *)
(***************************************************************************)
\* the path lies inside the directory
Inside(dir, path) ==
    /\ path.root = dir.root
    /\ Len(path.parts) > Len(dir.parts)
    /\ SubSeq(path.parts, 1, Len(dir.parts)) = dir.parts

\* C34: every file receive_files creates or overwrites lies inside the
\* destination directory the caller gave, whatever metadata the peer sends
\* (file names that are absolute paths or contain '..' included).
C34_WritesInsideDestination ==
    \A f \in DOMAIN dest : Inside(Path(download_dir), f)

(***************************************************************************)
(* utils.create_nfc_payload and utils.extract_nfc_data.  A text is its     *)
(* sequence of code points, a bytes object its sequence of byte values.    *)
(***************************************************************************)
MaxText == 2
MaxLanguage == 2

\* the code points of the texts: a, b, e with acute accent (two bytes)
CodePoints == {97, 98, 233}
\* the characters of the language codes: U+0001, e, n
LanguageChars == {1, 101, 110}

SeqsUpTo(S, lo, hi) == UNION { [1..n -> S] : n \in lo..hi }
Texts == SeqsUpTo(CodePoints, 0, MaxText)
Languages == SeqsUpTo(LanguageChars, 1, MaxLanguage)

\* text.encode('utf-8'), for code points below U+0800
RECURSIVE EncodeUtf8(_)
EncodeUtf8(text) ==
    IF text = <<>> THEN <<>>
    ELSE (IF Head(text) < 128 THEN << Head(text) >>
          ELSE << 192 + (Head(text) \div 64), 128 + (Head(text) % 64) >>)
         \o EncodeUtf8(Tail(text))

\* language.encode('ascii'): None when a character is not ASCII
EncodeAscii(language) ==
    IF \A k \in 1..Len(language) : language[k] < 128
    THEN [none |-> FALSE, bytes |-> language]
    ELSE [none |-> TRUE, bytes |-> <<>>]

\* bs.decode('utf-8'), strict: none when the bytes are not UTF-8
RECURSIVE DecodeUtf8(_, _)
DecodeUtf8(bs, acc) ==
    IF bs = <<>> THEN [none |-> FALSE, text |-> acc]
    ELSE IF Head(bs) < 128 THEN DecodeUtf8(Tail(bs), Append(acc, Head(bs)))
    ELSE IF /\ 194 <= Head(bs) /\ Head(bs) < 224
            /\ Len(bs) >= 2 /\ 128 <= bs[2] /\ bs[2] < 192
    THEN DecodeUtf8(Tail(Tail(bs)), Append(acc, (Head(bs) - 192) * 64 + (bs[2] - 128)))
    ELSE [none |-> TRUE, text |-> <<>>]

\* 0x02 | n, for n below 256
Or2(n) == IF (n \div 2) % 2 = 1 THEN n ELSE n + 2

\* create_nfc_payload(text, language): status byte, language code, text;
\* b"" when encoding raises
CreateNfcPayload(text, language) ==
    LET lang_bytes == EncodeAscii(language)
        text_bytes == EncodeUtf8(text)
        status_byte == Or2(Len(lang_bytes.bytes))
    IN IF lang_bytes.none \/ status_byte > 255 THEN <<>>
       ELSE << status_byte >> \o lang_bytes.bytes \o text_bytes

\* extract_nfc_data(nfc_payload): the byte after the status byte is taken as
\* the length of the language code
ExtractNfcData(nfc_payload) ==
    IF Len(nfc_payload) < 3 THEN [none |-> TRUE, text |-> <<>>]
    ELSE LET lang_length == nfc_payload[2]
         IN IF Len(nfc_payload) < 2 + lang_length
            THEN [none |-> TRUE, text |-> <<>>]
            ELSE LET text_start == 2 + lang_length
                 IN DecodeUtf8(SubSeq(nfc_payload, text_start + 1, Len(nfc_payload)), <<>>)

\* extract_nfc_data(create_nfc_payload(text, language))
NfcRoundTrip ==
    /\ \E text \in Texts, language \in Languages :
         LET payload == CreateNfcPayload(text, language)
         IN nfc' = [called |-> TRUE, text |-> text, language |-> language,
                    payload |-> payload, extracted |-> ExtractNfcData(payload)]
    /\ UNCHANGED << disk, changes, sessions, ops, cb, screen, android, other, verify, snd, tvars, rvars,
                    peer, dvars >>

NextNfc == NfcRoundTrip

SpecNfc == InitDiscovery /\ [][NextNfc]_vars

\* C35: for every text and every ASCII language code of length 1 to 63,
\* extract_nfc_data(create_nfc_payload(text, language)) returns the text.
C35_NfcRoundTrip ==
    nfc.called => nfc.extracted = [none |-> FALSE, text |-> nfc.text]

(***************************************************************************)
(* ui.NFCScreen: the user's presses, the NFC taps and the Clock.           *)
(***************************************************************************)
\* the strings an NFC tag delivers to on_nfc_data
NfcData ==
    { JsonDumps(Dict(<< KV("session_id", Str("s1")) >>)),
      JsonDumps(Num(5)),
      << Tok("{"), Tok("{") >> }

\* NFCHandler.stop_listening, on a device that has NFC
StopListening(s) == [s EXCEPT !.is_listening = FALSE]

\* NFCScreen.go_back
GoBackFrom(s) == [StopListening(s) EXCEPT !.current = "main"]

\* MainScreen.prepare_send with files selected: setup_send_mode, which ends
\* in start_nfc_listening
PrepareSend ==
    /\ screen.current = "main" /\ ops < MaxOps
    /\ ops' = ops + 1
    /\ screen' = [screen EXCEPT !.current = "nfc", !.is_sending = TRUE,
                                !.instructions = "Touch devices together to start sending",
                                !.is_listening = TRUE, !.action_btn = "Stop Listening"]
    /\ UNCHANGED << disk, changes, sessions, cb, nfc, android, other, verify, snd, tvars, rvars,
                    peer, dvars >>

\* MainScreen.prepare_receive: setup_receive_mode
PrepareReceive ==
    /\ screen.current = "main" /\ ops < MaxOps
    /\ ops' = ops + 1
    /\ screen' = [screen EXCEPT !.current = "nfc", !.is_sending = FALSE,
                                !.instructions = "Touch devices together to start receiving",
                                !.is_listening = TRUE, !.action_btn = "Stop Listening"]
    /\ UNCHANGED << disk, changes, sessions, cb, nfc, android, other, verify, snd, tvars, rvars,
                    peer, dvars >>

\* on_nfc_data: an NFC tap while the handler listens; start_file_transfer or
\* start_file_reception, show_progress and simulate_transfer_progress, which
\* schedules one more update_progress interval
OnNfcData ==
    /\ screen.is_listening /\ ops < MaxOps
    /\ ops' = ops + 1
    /\ \E data \in NfcData :
         LET nfc_data == JsonLoads(data)
         IN screen' = IF nfc_data.ok /\ nfc_data.v.j = "obj"
                      THEN [screen EXCEPT
                              !.instructions = IF screen.is_sending
                                               THEN "Starting file transfer..."
                                               ELSE "Starting file reception...",
                              !.value = 0,
                              !.action_btn = "Cancel Transfer",
                              !.timers = @ + 1,
                              !.cancelled = FALSE]
                      ELSE [screen EXCEPT !.instructions = "Error"]
    /\ UNCHANGED << disk, changes, sessions, cb, nfc, android, other, verify, snd, tvars, rvars,
                    peer, dvars >>

\* transfer_complete
TransferComplete(s) ==
    [StopListening(s) EXCEPT !.progress_label = Label("Transfer complete!", 0),
                             !.instructions = "Files transferred successfully",
                             !.action_btn = "Done"]

\* one call of update_progress by the Clock; the ProgressBar keeps its value
\* at most 100; the interval ends when the call returns False
UpdateProgress ==
    /\ screen.timers > 0
    /\ LET value == Min(100, screen.value + 2)
           s == [screen EXCEPT !.value = value,
                               !.progress_label = Label("Transfer progress: %", value)]
       IN screen' = IF value >= 100
                    THEN [TransferComplete(s) EXCEPT !.timers = @ - 1]
                    ELSE s
    /\ UNCHANGED << disk, changes, sessions, ops, cb, nfc, android, other, verify, snd, tvars, rvars,
                    peer, dvars >>

\* cancel_operation: the action button is pressed
CancelOperation ==
    /\ screen.current = "nfc"
    /\ screen' = IF screen.action_btn = "Done"
                 THEN GoBackFrom(StopListening(screen))
                 ELSE [StopListening(screen) EXCEPT
                         !.instructions = "Operation cancelled",
                         !.action_btn = "Back",
                         !.cancelled = @ \/ (screen.timers > 0 /\ screen.value < 100)]
    /\ UNCHANGED << disk, changes, sessions, ops, cb, nfc, android, other, verify, snd, tvars, rvars,
                    peer, dvars >>

\* go_back: the Back button is pressed
GoBack ==
    /\ screen.current = "nfc"
    /\ screen' = GoBackFrom(screen)
    /\ UNCHANGED << disk, changes, sessions, ops, cb, nfc, android, other, verify, snd, tvars, rvars,
                    peer, dvars >>

NextScreen ==
    \/ PrepareSend
    \/ PrepareReceive
    \/ OnNfcData
    \/ UpdateProgress
    \/ CancelOperation
    \/ GoBack

SpecScreen == InitDiscovery /\ [][NextScreen]_vars

\* C36: once the user has cancelled a transfer in progress, and until the
\* next NFC tap starts a new one, no step makes the screen report
\* 'Transfer complete!' or switches the action button to 'Done'.
C36_CancelledStaysCancelled ==
    [][screen.cancelled /\ screen'.cancelled =>
         /\ ~(/\ screen'.progress_label.text = "Transfer complete!"
              /\ screen.progress_label.text # "Transfer complete!")
         /\ ~(screen'.action_btn = "Done" /\ screen.action_btn # "Done")]_vars

=============================================================================
